---------------------------- MODULE Spec2Model ----------------------------
(***************************************************************************)
(* Model of the light-client core of smoldot:                              *)
(*   - finality/justification/verify.rs : verify                           *)
(*   - transactions/validate.rs         : validate_transaction and Query   *)
(*   - finality/grandpa/commit/decode.rs: decode_grandpa_commit and        *)
(*                                        decode_partial_grandpa_commit    *)
(*                                                                         *)
(* A u64 is a tuple of four 16-bit limbs, least significant first, since   *)
(* the model checker's integers are 32 bits wide.  A byte string is a      *)
(* sequence of numbers in 0..255.  A public key is an identifier standing  *)
(* for a 32-byte string; 0 stands for "no key".                            *)
(***************************************************************************)
EXTENDS Integers, Sequences, FiniteSets, TLC

VARIABLES
    \* ---- verify.rs ----
    config,            \* the Config passed to verify
    pc,                \* position inside verify
    randomness,        \* the ChaCha20Rng: its seed and the bytes drawn so far
    authorities_list,  \* the HashMap: authority key -> seen in a precommit
    batch,             \* items queued in the ed25519 batch verifier
    msg_capacity,      \* capacity of the Vec msg of the last precommit queued
    next_precommit,    \* number of precommits the for loop has consumed
    result,            \* what verify returned
    \* ---- validate.rs ----
    vconfig,           \* the Config passed to validate_transaction
    query,             \* the Query the caller holds
    caller_vm,         \* the HostVmPrototype in the caller's hands
    calls,             \* the runtime entry points invoked so far
    \* ---- decode.rs ----
    commit_input,      \* scale_encoded and block_number_bytes
    grandpa_commit,    \* what decode_grandpa_commit returned
    partial_commit,    \* what decode_partial_grandpa_commit returned
    \* ---- validate.rs, the return value of the validation function ----
    return_value,      \* the bytes the validation function returned
    decoded_output,    \* what decode_validate_transaction_return_value returned
    reported           \* the result from_step2 makes of a machine finished with them

verify_vars ==
    <<config, pc, randomness, authorities_list, batch, msg_capacity,
      next_precommit, result>>

driver_vars == <<vconfig, query, caller_vm, calls>>

decode_vars == <<commit_input, grandpa_commit, partial_commit>>

validity_vars == <<return_value, decoded_output, reported>>

vars == <<verify_vars, driver_vars, decode_vars, validity_vars>>

-----------------------------------------------------------------------------
(* Bounds of the model.                                                    *)

\* Longest authorities_list (repeated entries included) of the membership inputs.
MaxAuth == 4
\* Most precommits of a justification of the membership inputs.
MaxPre == 3
\* Largest authority set of the quorum inputs (keys all distinct).
MaxQuorumAuth == 10

-----------------------------------------------------------------------------
(* Unsigned 64-bit integers and bytes.                                     *)

Min(a, b) == IF a < b THEN a ELSE b

SaturatingSub(a, b) == IF a > b THEN a - b ELSE 0

Range(s) == {s[i] : i \in DOMAIN s}

Zeros(n) == [i \in 1..n |-> 0]

\* A u64 whose value fits 16 bits.
Small(n) == <<n, 0, 0, 0>>

\* Mutant of to_le_bytes: the bytes most significant first (to_be_bytes).
to_be_bytes(n) ==
    [i \in 1..8 |->
        LET limb == n[4 - (i - 1) \div 2]
        IN  IF i % 2 = 1 THEN limb \div 256 ELSE limb % 256]

\* u64::to_le_bytes: the eight bytes of n, least significant first.
to_le_bytes(n) ==
    [i \in 1..8 |->
        LET limb == n[(i + 1) \div 2]
        IN  IF i % 2 = 1 THEN limb % 256 ELSE limb \div 256]

\* size_of_val(&precommit.target_number): target_number is a u64.
SizeOfU64 == 8

-----------------------------------------------------------------------------
(* What a GRANDPA authority signs, and the ed25519 check.                  *)

\* Byte i (from 0) of the unbounded little-endian expansion of n.
ByteOf(n, i) ==
    IF i >= 8 THEN 0
    ELSE (n[(i \div 2) + 1] \div (IF i % 2 = 0 THEN 1 ELSE 256)) % 256

\* The payload an authority signs for a precommit: the message kind 1, the
\* block hash, the block number in `width` little-endian bytes, the round and
\* the authority set id.
SignedPayload(sig) ==
    <<1>> \o sig.target_hash
          \o [i \in 1..sig.width |-> ByteOf(sig.target_number, i - 1)]
          \o [i \in 1..8 |-> ByteOf(sig.round, i - 1)]
          \o [i \in 1..8 |-> ByteOf(sig.set_id, i - 1)]

\* A signature is identified by its signer (0: nobody, a forged signature) and
\* by what was signed.  It verifies under key pk for message msg exactly when
\* pk signed msg.
Ed25519Valid(item) ==
    /\ item.signature.signer = item.public_key
    /\ SignedPayload(item.signature) = item.msg

\* ed25519_zebra::batch::Verifier::verify: accepts when every item verifies.
\* The random coefficients drawn from rng do not change the outcome.
BatchVerify(items, rng) == \A i \in DOMAIN items : Ed25519Valid(items[i])

-----------------------------------------------------------------------------
(* The inputs of verify: Config values drawn from bounded sets.            *)

HashA == [i \in 1..32 |-> i]
HashB == [i \in 1..32 |-> 255 - i]

\* 5105457 = 0x004DE731
N5105457 == <<59185, 77, 0, 0>>
\* 0x0807060504030201: every byte differs.
NBytes == <<513, 1027, 1541, 2055>>
\* u64::MAX
NMax == <<65535, 65535, 65535, 65535>>

Numbers == {N5105457, NBytes, NMax}
Hashes == {HashA, HashB}
\* Round numbers and set ids that differ above their low 32 bits only.
Rounds == {Small(3669), <<3669, 0, 1, 0>>}
SetIds == {Small(3490), <<3490, 0, 0, 1>>}
\* block_number_bytes: the supported widths, and two wider ones.
Widths == (1..8) \cup {9, 12}
Seeds == {0, 1}

\* Public keys: one more than the longest authority list, so that a key
\* outside every authority set exists.
Keys == 1..(MaxAuth + 1)

Prefix(n) == [i \in 1..n |-> i]

\* A signature by `signer` over the given precommit fields.
Signature(signer, hash, number, width, round, set_id) ==
    [signer |-> signer, target_hash |-> hash, target_number |-> number,
     width |-> width, round |-> round, set_id |-> set_id]

\* decode::PrecommitRef
Precommit(key, hash, number, sig) ==
    [target_hash |-> hash, target_number |-> number,
     signature |-> sig, authority_public_key |-> key]

MkConfig(round, precommits, width, set_id, auths, seed) ==
    [justification |-> [round |-> round, precommits |-> precommits],
     block_number_bytes |-> width,
     authorities_set_id |-> set_id,
     authorities_list |-> auths,
     randomness_seed |-> seed]

\* Authority lists: the keys 1..n, and the same followed by one repeated key.
AuthorityLists ==
    {Prefix(n) : n \in 0..MaxAuth}
        \cup UNION {{Prefix(n) \o <<k>> : k \in 1..n} : n \in 1..(MaxAuth - 1)}

KeySeqs == UNION {[1..n -> Keys] : n \in 0..MaxPre}

HashOf(i) == IF i % 2 = 1 THEN HashA ELSE HashB

\* Membership inputs: every sequence of precommit keys against every authority
\* list; precommit number `bad` (0: none) carries a forged signature.
MembershipConfig(auths, keys, bad) ==
    MkConfig(Small(3669),
             [i \in 1..Len(keys) |->
                Precommit(keys[i], HashOf(i), N5105457,
                    Signature(IF i = bad THEN 0 ELSE keys[i], HashOf(i),
                              N5105457, 4, Small(3669), Small(3490)))],
             4, Small(3490), auths, 0)

\* Preimage inputs: n authorities each signing one precommit; the signers
\* signed for round sr and set id ss, the Config names round r and set id s.
PreimageConfig(n, h, num, w, r, s, sr, ss, seed) ==
    MkConfig(r,
             [i \in 1..n |->
                Precommit(i, h, num, Signature(i, h, num, w, sr, ss))],
             w, s, Prefix(n), seed)

\* Quorum inputs: a distinct authorities, p honest precommits by keys 1..p.
QuorumConfig(a, p) ==
    MkConfig(Small(3669),
             [i \in 1..p |->
                Precommit(i, HashA, N5105457,
                    Signature(i, HashA, N5105457, 4, Small(3669), Small(3490)))],
             4, Small(3490), Prefix(a), 0)

\* The Config values verify is run on.
InitConfig ==
    \/ \E auths \in AuthorityLists, keys \in KeySeqs :
          \E bad \in 0..Len(keys) : config = MembershipConfig(auths, keys, bad)
    \/ \E n \in 1..2, h \in Hashes, num \in Numbers, w \in Widths,
          r \in Rounds, s \in SetIds, sr \in Rounds, ss \in SetIds,
          seed \in Seeds :
          config = PreimageConfig(n, h, num, w, r, s, sr, ss, seed)
    \/ \E a \in 0..MaxQuorumAuth, p \in 0..MaxQuorumAuth :
          config = QuorumConfig(a, p)

-----------------------------------------------------------------------------
(* verify                                                                  *)

NoKey == 0

Ok == [kind |-> "Ok", key |-> NoKey]
Err(kind, key) == [kind |-> kind, key |-> key]
Pending == [kind |-> "Pending", key |-> NoKey]

precommits == config.justification.precommits
num_precommits == Len(precommits)

\* The authorities, as the HashMap holds them: one entry per distinct key.
AuthoritySet(list) == Range(list)

\* Mutant of QuorumThreshold: the + 1 is forgotten.
QuorumThresholdNoPlusOne(len) == (len * 2) \div 3

\* Mutant of QuorumThreshold: two thirds rounded up instead of floor + 1.
QuorumThresholdCeil(len) == ((len * 2) + 2) \div 3

\* The quorum: (len * 2 / 3) + 1 precommits.
QuorumThreshold(len) == ((len * 2) \div 3) + 1

\* Mutant of Preimage: the set id comes before the round.
PreimageSwapped(precommit, cfg) ==
    <<1>> \o precommit.target_hash
          \o SubSeq(to_le_bytes(precommit.target_number), 1,
                    Min(SizeOfU64, cfg.block_number_bytes))
          \o Zeros(SaturatingSub(cfg.block_number_bytes, SizeOfU64))
          \o to_le_bytes(cfg.authorities_set_id)
          \o to_le_bytes(cfg.justification.round)

\* Mutant of Preimage: the set id is written as a 32-bit number, zero-extended.
PreimageSetId32(precommit, cfg) ==
    <<1>> \o precommit.target_hash
          \o SubSeq(to_le_bytes(precommit.target_number), 1,
                    Min(SizeOfU64, cfg.block_number_bytes))
          \o Zeros(SaturatingSub(cfg.block_number_bytes, SizeOfU64))
          \o to_le_bytes(cfg.justification.round)
          \o SubSeq(to_le_bytes(cfg.authorities_set_id), 1, 4) \o Zeros(4)

\* Mutant of Preimage: the block number is never padded, so that it has at
\* most eight bytes.
PreimageWithoutPadding(precommit, cfg) ==
    <<1>> \o precommit.target_hash
          \o SubSeq(to_le_bytes(precommit.target_number), 1,
                    Min(SizeOfU64, cfg.block_number_bytes))
          \o to_le_bytes(cfg.justification.round)
          \o to_le_bytes(cfg.authorities_set_id)

\* The message whose signature is checked for a precommit.
Preimage(precommit, cfg) ==
    <<1>> \o precommit.target_hash
          \o SubSeq(to_le_bytes(precommit.target_number), 1,
                    Min(SizeOfU64, cfg.block_number_bytes))
          \o Zeros(SaturatingSub(cfg.block_number_bytes, SizeOfU64))
          \o to_le_bytes(cfg.justification.round)
          \o to_le_bytes(cfg.authorities_set_id)

InitVerify ==
    /\ InitConfig
    /\ pc = "collect"
    /\ randomness = [seed |-> config.randomness_seed, drawn |-> 0]
    /\ authorities_list = << >>
    /\ batch = << >>
    /\ msg_capacity = 0
    /\ next_precommit = 0
    /\ result = Pending
    /\ vconfig = << >>
    /\ query = << >>
    /\ caller_vm = "none"
    /\ calls = << >>
    /\ commit_input = << >>
    /\ grandpa_commit = << >>
    /\ partial_commit = << >>
    /\ return_value = << >>
    /\ decoded_output = << >>
    /\ reported = << >>

\* Lines 53-72: seed the PRNG, draw the 16-byte hasher key, insert every
\* authority with the flag false.
CollectAuthorities ==
    /\ pc = "collect"
    /\ randomness' = [randomness EXCEPT !.drawn = @ + 16]
    /\ authorities_list' = [k \in AuthoritySet(config.authorities_list) |-> FALSE]
    /\ pc' = "quorum"
    /\ UNCHANGED <<config, batch, msg_capacity, next_precommit, result, driver_vars, decode_vars, validity_vars>>

\* Mutant of CheckQuorum: the threshold is taken from the number of entries
\* the iterator yielded instead of the number of keys in the map.
CheckQuorumCountsEntries ==
    /\ pc = "quorum"
    /\ IF num_precommits < QuorumThreshold(Len(config.authorities_list))
       THEN /\ result' = Err("NotEnoughSignatures", NoKey)
            /\ pc' = "done"
       ELSE /\ result' = result
            /\ pc' = "precommits"
    /\ UNCHANGED <<config, randomness, authorities_list, batch, msg_capacity, next_precommit, driver_vars, decode_vars, validity_vars>>

\* Lines 74-80: the quorum check.
CheckQuorum ==
    /\ pc = "quorum"
    /\ IF num_precommits < QuorumThreshold(Cardinality(DOMAIN authorities_list))
       THEN /\ result' = Err("NotEnoughSignatures", NoKey)
            /\ pc' = "done"
       ELSE /\ result' = result
            /\ pc' = "precommits"
    /\ UNCHANGED <<config, randomness, authorities_list, batch, msg_capacity, next_precommit, driver_vars, decode_vars, validity_vars>>

\* Mutant of Entry: the previous value of the flag is ignored.
EntryIgnoresSeen(map, key) ==
    IF key \in DOMAIN map THEN "OccupiedFresh" ELSE "Vacant"

\* Mutant of Entry: a vacant entry is inserted instead of being an error.
EntryInsertsVacant(map, key) ==
    IF key \in DOMAIN map /\ map[key] THEN "OccupiedSeen" ELSE "OccupiedFresh"

\* Lines 91-100: authorities_list.entry(key): vacant, or occupied by an
\* authority that was or was not seen in an earlier precommit.
Entry(map, key) ==
    IF key \in DOMAIN map
    THEN IF map[key] THEN "OccupiedSeen" ELSE "OccupiedFresh"
    ELSE "Vacant"

\* Mutant of MarkSeen: the flag is not set.
MarkSeenForgets(map, key) == map

\* Line 93: entry.insert(true).
MarkSeen(map, key) == [map EXCEPT ![key] = TRUE]

\* Vec::reserve, as push, extend_from_slice and extend call it before they
\* write `additional` bytes: the capacity is kept when the bytes fit, and is
\* otherwise the larger of twice the capacity and the length needed.
reserve(capacity, len, additional) ==
    IF capacity - len >= additional THEN capacity
    ELSE IF 2 * capacity > len + additional THEN 2 * capacity
    ELSE len + additional

\* Lines 105-124: the number of bytes each push or extend adds to msg.
msg_parts(cfg) ==
    <<1, 32, Min(SizeOfU64, cfg.block_number_bytes),
      SaturatingSub(cfg.block_number_bytes, SizeOfU64), 8, 8>>

\* Lines 104-124: the capacity of msg once the parts from number i on are
\* added to a Vec of the given capacity and length.
RECURSIVE capacity_after(_, _, _, _)
capacity_after(parts, i, capacity, len) ==
    IF i > Len(parts) THEN capacity
    ELSE capacity_after(parts, i + 1, reserve(capacity, len, parts[i]),
                        len + parts[i])

\* Line 125: msg.capacity() when the assertion is evaluated, msg being made
\* by Vec::with_capacity(1 + 32 + 4 + 8 + 8).
capacity_of_msg(cfg) == capacity_after(msg_parts(cfg), 1, 1 + 32 + 4 + 8 + 8, 0)

\* Lines 128-132: the item queued for a precommit.
Item(precommit, cfg) ==
    [public_key |-> precommit.authority_public_key,
     signature |-> precommit.signature,
     msg |-> Preimage(precommit, cfg)]

\* Lines 90-133: one iteration of the loop over the precommits.
CheckPrecommit ==
    /\ pc = "precommits"
    /\ next_precommit < num_precommits
    /\ LET precommit == precommits[next_precommit + 1]
           key == precommit.authority_public_key
           entry == Entry(authorities_list, key)
       IN  /\ next_precommit' = next_precommit + 1
           /\ CASE entry = "OccupiedSeen" ->
                    /\ result' = Err("DuplicateSignature", key)
                    /\ pc' = "done"
                    /\ UNCHANGED <<authorities_list, batch, msg_capacity>>
                [] entry = "Vacant" ->
                    /\ result' = Err("NotAuthority", key)
                    /\ pc' = "done"
                    /\ UNCHANGED <<authorities_list, batch, msg_capacity>>
                [] OTHER ->
                    /\ authorities_list' = MarkSeen(authorities_list, key)
                    /\ batch' = Append(batch, Item(precommit, config))
                    /\ msg_capacity' = capacity_of_msg(config)
                    /\ UNCHANGED <<result, pc>>
    /\ UNCHANGED <<config, randomness, driver_vars, decode_vars, validity_vars>>

\* Mutant of VerifyBatch: a failed batch is put down to a public key.
VerifyBatchBadPublicKey ==
    /\ pc = "precommits"
    /\ next_precommit = num_precommits
    /\ result' = IF BatchVerify(batch, randomness) THEN Ok
                 ELSE Err("BadPublicKey", NoKey)
    /\ randomness' = [randomness EXCEPT !.drawn = @ + 16 * Len(batch)]
    /\ pc' = "done"
    /\ UNCHANGED <<config, authorities_list, batch, msg_capacity, next_precommit, driver_vars, decode_vars, validity_vars>>

\* Mutant of VerifyBatch: the error names the key of a rejected item.
VerifyBatchNamesSigner ==
    /\ pc = "precommits"
    /\ next_precommit = num_precommits
    /\ result' = IF BatchVerify(batch, randomness) THEN Ok
                 ELSE Err("BadSignature",
                          batch[CHOOSE i \in DOMAIN batch :
                                    ~Ed25519Valid(batch[i])].public_key)
    /\ randomness' = [randomness EXCEPT !.drawn = @ + 16 * Len(batch)]
    /\ pc' = "done"
    /\ UNCHANGED <<config, authorities_list, batch, msg_capacity, next_precommit, driver_vars, decode_vars, validity_vars>>

\* Lines 135-143: the batch verification, then Ok.
VerifyBatch ==
    /\ pc = "precommits"
    /\ next_precommit = num_precommits
    /\ result' = IF BatchVerify(batch, randomness) THEN Ok
                 ELSE Err("BadSignature", NoKey)
    /\ randomness' = [randomness EXCEPT !.drawn = @ + 16 * Len(batch)]
    /\ pc' = "done"
    /\ UNCHANGED <<config, authorities_list, batch, msg_capacity, next_precommit, driver_vars, decode_vars, validity_vars>>

NextVerify ==
    \/ CollectAuthorities
    \/ CheckQuorum
    \/ CheckPrecommit
    \/ VerifyBatch


-----------------------------------------------------------------------------
(* SCALE decoding of the value returned by the validation function.        *)
(* A parser returns [ok, value, rest]; every nom error, Incomplete         *)
(* included, is a failure.                                                 *)

ParseFail == [ok |-> FALSE, value |-> << >>, rest |-> << >>]
ParseOk(v, rest) == [ok |-> TRUE, value |-> v, rest |-> rest]

Drop(bytes, n) == SubSeq(bytes, n + 1, Len(bytes))
Take(bytes, n) == SubSeq(bytes, 1, n)

\* nom::number::streaming::le_u64
le_u64(bytes) ==
    IF Len(bytes) < 8 THEN ParseFail
    ELSE ParseOk(<<bytes[1] + 256 * bytes[2], bytes[3] + 256 * bytes[4],
                   bytes[5] + 256 * bytes[6], bytes[7] + 256 * bytes[8]>>,
                 Drop(bytes, 8))

\* util::nom_scale_compact_usize, for prefixes of one and two bytes.  A value
\* of 2^14 or more announces more tags, or a longer tag, than a buffer of the
\* sizes modelled holds, and the decoding fails either way.
nom_scale_compact_usize(bytes) ==
    IF Len(bytes) = 0 THEN ParseFail
    ELSE CASE bytes[1] % 4 = 0 -> ParseOk(bytes[1] \div 4, Drop(bytes, 1))
           [] bytes[1] % 4 = 1 ->
                IF Len(bytes) < 2 \/ bytes[2] = 0 THEN ParseFail
                ELSE ParseOk((bytes[1] \div 4) + 64 * bytes[2], Drop(bytes, 2))
           [] OTHER -> ParseFail

\* util::nom_bool_decode
nom_bool_decode(bytes) ==
    IF Len(bytes) = 0 THEN ParseFail
    ELSE CASE bytes[1] = 0 -> ParseOk(FALSE, Drop(bytes, 1))
           [] bytes[1] = 1 -> ParseOk(TRUE, Drop(bytes, 1))
           [] OTHER -> ParseFail

\* nom::multi::length_data: the bytes counted by the length just parsed.
length_data(len) ==
    IF ~len.ok \/ Len(len.rest) < len.value THEN ParseFail
    ELSE ParseOk(Take(len.rest, len.value), Drop(len.rest, len.value))

\* nom::multi::length_data(nom_scale_compact_usize), copied to a Vec.
tag_data(bytes) == length_data(nom_scale_compact_usize(bytes))

\* nom::multi::many_m_n(n, n, tag_data): n tags after those in acc, of which
\* t is the first.
RECURSIVE many_tags(_, _, _)
many_tags(t, n, acc) ==
    IF ~t.ok THEN ParseFail
    ELSE IF n = 1 THEN ParseOk(Append(acc, t.value), t.rest)
    ELSE many_tags(tag_data(t.rest), n - 1, Append(acc, t.value))

\* The tags counted by the number just parsed.
counted_tags(num_elems) ==
    IF ~num_elems.ok THEN ParseFail
    ELSE IF num_elems.value = 0 THEN ParseOk(<< >>, num_elems.rest)
    ELSE many_tags(tag_data(num_elems.rest), num_elems.value, << >>)

tags(bytes) == counted_tags(nom_scale_compact_usize(bytes))

IsZero64(n) == n = <<0, 0, 0, 0>>

\* Mutant of map_opt_non_zero: a longevity of zero is kept.
MapOptKeepsZero(r) == r

\* nom::combinator::map_opt(le_u64, NonZeroU64::new)
map_opt_non_zero(r) == IF r.ok /\ IsZero64(r.value) THEN ParseFail ELSE r

non_zero_le_u64(bytes) == map_opt_non_zero(le_u64(bytes))

\* The result of a parser as the set of its successes: none or one.
Success(r) == IF r.ok THEN {r} ELSE {}

\* nom::sequence::tuple of the five parsers, each run on what the one before
\* it left, and the closure that maps the five values to a ValidTransaction.
\* The result is the set of the successes: none or one.
valid_transaction(bytes) ==
    UNION {UNION {UNION {UNION {
        {ParseOk([variant |-> "Valid",
                  priority |-> priority.value,
                  requires |-> requires.value,
                  provides |-> provides.value,
                  longevity |-> longevity.value,
                  propagate |-> propagate.value],
                 propagate.rest)
           : propagate \in Success(nom_bool_decode(longevity.rest))}
           : longevity \in Success(non_zero_le_u64(provides.rest))}
           : provides \in Success(tags(requires.rest))}
           : requires \in Success(tags(priority.rest))}
           : priority \in Success(le_u64(bytes))}

InvalidKinds ==
    <<"Call", "Payment", "Future", "Stale", "BadProof", "AncientBirthBlock",
      "ExhaustsResources", "Custom", "BadMandatory", "MandatoryDispatch">>

UnknownKinds == <<"CannotLookup", "NoUnsignedValidator", "Custom">>

\* A validity error: Invalid(kind) or Unknown(kind); custom is the u8 of Custom.
ValidityError(variant, kind, custom) ==
    [variant |-> variant, kind |-> kind, custom |-> custom]

\* Mutant of error_kind: Custom takes no further byte.
ErrorKindCustomBare(bytes, variant, kinds) ==
    IF Len(bytes) = 0 \/ bytes[1] >= Len(kinds) THEN ParseFail
    ELSE ParseOk(ValidityError(variant, kinds[bytes[1] + 1], 0), Drop(bytes, 1))

\* The alternatives of invalid_transaction and of unknown_transaction: one tag
\* byte, and one more byte for the kind Custom.
error_kind(bytes, variant, kinds) ==
    IF Len(bytes) = 0 \/ bytes[1] >= Len(kinds) THEN ParseFail
    ELSE LET kind == kinds[bytes[1] + 1]
         IN  IF kind = "Custom"
             THEN IF Len(bytes) < 2 THEN ParseFail
                  ELSE ParseOk(ValidityError(variant, kind, bytes[2]),
                               Drop(bytes, 2))
             ELSE ParseOk(ValidityError(variant, kind, 0), Drop(bytes, 1))

invalid_transaction(bytes) == error_kind(bytes, "Invalid", InvalidKinds)

unknown_transaction(bytes) == error_kind(bytes, "Unknown", UnknownKinds)

transaction_validity_error(bytes) ==
    IF Len(bytes) = 0 THEN ParseFail
    ELSE CASE bytes[1] = 0 -> invalid_transaction(Drop(bytes, 1))
           [] bytes[1] = 1 -> unknown_transaction(Drop(bytes, 1))
           [] OTHER -> ParseFail

\* The successes of transaction_validity: none or one.
transaction_validity(bytes) ==
    IF Len(bytes) = 0 THEN {}
    ELSE CASE bytes[1] = 0 -> valid_transaction(Drop(bytes, 1))
           [] bytes[1] = 1 -> Success(transaction_validity_error(Drop(bytes, 1)))
           [] OTHER -> {}

\* nom::combinator::all_consuming: the successes that leave nothing.
all_consuming(successes) == {r \in successes : r.rest = << >>}

\* The match on the result: Ok(data) or Err(DecodeError()).
decoded(successes) ==
    IF successes = {} THEN [ok |-> FALSE, value |-> << >>]
    ELSE [ok |-> TRUE, value |-> (CHOOSE r \in successes : TRUE).value]

decode_validate_transaction_return_value(scale_encoded) ==
    CHOOSE data \in {decoded(successes) : successes \in
                        {all_consuming(transaction_validity(scale_encoded))}} : TRUE

-----------------------------------------------------------------------------
(* The runtime host: a resumable virtual machine.  At each resumption it   *)
(* yields one of its states; which one is the runtime's choice.            *)

\* Most yields (other than the final one) of one entry point.
MaxYields == 2

NoVm == "none"
VmIds == {"vmA", "vmB"}

CORE_INITIALIZE_BLOCK == "Core_initialize_block"
VALIDATION_FUNCTION_NAME == "TaggedTransactionQueue_validate_transaction"

\* Yields surfaced to the caller, and yields the driver answers itself.
SuspendKinds == {"StorageGet", "ClosestDescendantMerkleValue", "NextKey"}
InternalKinds == {"SignatureVerification", "OffchainStorageSet"}

\* Values the validation function may return.
LE8Small(n) == <<n, 0, 0, 0, 0, 0, 0, 0>>
OutValid == <<0>> \o LE8Small(4) \o <<0>> \o <<4, 4, 7>> \o LE8Small(1) \o <<1>>
OutEmptyProvides == <<0>> \o LE8Small(4) \o <<4, 8, 1, 2>> \o <<0>> \o LE8Small(1) \o <<0>>
OutZeroLongevity == <<0>> \o LE8Small(4) \o <<0>> \o <<4, 4, 7>> \o LE8Small(0) \o <<1>>
OutStale == <<1, 0, 3>>
OutUnknownCustom == <<1, 1, 2, 9>>
OutTrailing == OutStale \o <<0>>

ValidationOutputs ==
    {OutValid, OutEmptyProvides, OutZeroLongevity, OutStale, OutUnknownCustom,
     OutTrailing, << >>}

\* Values Core_initialize_block may return.
InitializeOutputs == {<< >>, <<0>>}

Outputs(function) ==
    IF function = CORE_INITIALIZE_BLOCK THEN InitializeOutputs
    ELSE ValidationOutputs

\* Storage changes a finished call reports.
StorageChanges == {"no changes", "changes"}

\* A RuntimeHostVm: its state, the function it runs, the prototype it was made
\* from, the kinds of its yields so far, and, when finished, its output,
\* storage changes or error detail.
Vm(state, function, prototype, yields, output, changes, detail) ==
    [state |-> state, function |-> function, prototype |-> prototype,
     yields |-> yields, output |-> output, storage_changes |-> changes,
     detail |-> detail]

NoInner == Vm("None", "", NoVm, << >>, << >>, "", "")

\* The states a virtual machine can be in after the earlier yields.  A machine
\* that has stopped yields no more, and its earlier yields are not kept.
VmStates(function, prototype, yields) ==
    (IF Len(yields) < MaxYields
     THEN {Vm(k, function, prototype, Append(yields, k), << >>, "", "")
             : k \in SuspendKinds \cup InternalKinds}
     ELSE {})
    \cup {Vm("FinishedOk", function, prototype, << >>, o, c, "")
             : o \in Outputs(function), c \in StorageChanges}
    \cup {Vm("FinishedErr", function, prototype, << >>, << >>, "", "Trap"),
          Vm("Offchain", function, prototype, << >>, << >>, "", "")}

\* runtime_host::run: the machine at its first yield, or a start error that
\* gives the prototype back.
runtime_host_run(prototype, function) ==
    {[ok |-> FALSE, inner |-> NoInner, prototype |-> prototype]}
    \cup {[ok |-> TRUE, inner |-> vm, prototype |-> NoVm]
             : vm \in VmStates(function, prototype, << >>)}

\* inject_value, inject_merkle_value, resume_unknown, inject_key,
\* verify_and_resume and resume: the machine runs to its next yield.
VmResume(inner) == VmStates(inner.function, inner.prototype, inner.yields)

\* RuntimeHostVm::into_prototype, SuccessVirtualMachine::into_prototype,
\* Error::prototype: the prototype the machine was made from.
VmPrototype(inner) == inner.prototype

-----------------------------------------------------------------------------
(* validate_transaction and the Query it returns.                          *)

\* The input header: whether header::decode accepts it, its number, and the
\* byte its hash is made of.
Header(valid, number, seed) == [valid |-> valid, number |-> number, seed |-> seed]

\* header::hash_from_scale_encoded_header, and the hash of the decoded header.
HeaderHash(header) == [i \in 1..32 |-> header.seed]

\* number + 1 on a u64.
Inc64(n) ==
    CASE n[1] < 65535 -> <<n[1] + 1, n[2], n[3], n[4]>>
      [] n[2] < 65535 -> <<0, n[2] + 1, n[3], n[4]>>
      [] n[3] < 65535 -> <<0, 0, n[3] + 1, n[4]>>
      [] n[4] < 65535 -> <<0, 0, 0, n[4] + 1>>
      [] OTHER -> <<0, 0, 0, 0>>

Headers ==
    {Header(TRUE, Small(5), 17), Header(TRUE, <<65535, 0, 0, 0>>, 18),
     Header(FALSE, Small(0), 19), Header(TRUE, NMax, 20)}

\* The block_number_bytes a header is decoded with: 4, or 8 for a number that
\* does not fit 4 bytes.
WidthOfNumber(header) ==
    IF header.number[3] = 0 /\ header.number[4] = 0 THEN 4 ELSE 8

\* Option<u32> as a sequence: None is << >>, Some(v) is <<v>>.
ApiVersions == {<< >>, <<1>>, <<2>>, <<3>>, <<4>>}

Sources == {"InBlock", "Local", "External"}

\* The transaction (the segments its iterator yields), its source and the log
\* level given together in a Config.
Submissions ==
    {[tx |-> << >>, source |-> "InBlock", level |-> 0],
     [tx |-> <<<<9, 8>>, <<7>>>>, source |-> "Local", level |-> 3],
     [tx |-> <<<<9, 8>>, <<7>>>>, source |-> "External", level |-> 0]}

SourceByte(source) ==
    CASE source = "InBlock" -> <<0>>
      [] source = "Local" -> <<1>>
      [] source = "External" -> <<2>>

\* The segments one after the other: the fold of validate_transaction.
RECURSIVE Concat(_)
Concat(segments) ==
    IF segments = << >> THEN << >>
    ELSE Head(segments) \o Concat(Tail(segments))

\* Mutant of validate_transaction_runtime_parameters_inner: the block hash is
\* chained before the transaction.
ParametersHashBeforeTransaction(scale_encoded_transaction, source, block_hash) ==
    <<SourceByte(source)>> \o <<block_hash>> \o scale_encoded_transaction

\* The chain of segments: source, transaction, block hash.
validate_transaction_runtime_parameters_inner(scale_encoded_transaction, source, block_hash) ==
    <<SourceByte(source)>> \o scale_encoded_transaction \o <<block_hash>>

validate_transaction_runtime_parameters_v2(scale_encoded_transaction, source) ==
    validate_transaction_runtime_parameters_inner(
        scale_encoded_transaction, source, << >>)

validate_transaction_runtime_parameters_v3(scale_encoded_transaction, source, block_hash) ==
    validate_transaction_runtime_parameters_inner(
        scale_encoded_transaction, source, block_hash)

\* A runtime_host::Config, as recorded in calls, with what became of the call:
\* whether runtime_host::run started it, and the state in which the machine
\* ended it (NoInner as long as it has not).
Call(function, parameter, changes, level) ==
    [function_to_call |-> function, parameter |-> parameter,
     storage_main_trie_changes |-> changes, max_log_level |-> level,
     calculate_trie_changes |-> FALSE,
     started |-> TRUE, ended |-> NoInner]

\* The calls, the last of which runtime_host::run refused to start.
NotStarted(cs) == [cs EXCEPT ![Len(cs)].started = FALSE]

\* The calls, the last of which the machine ended in the state inner.
Ended(cs, inner) == [cs EXCEPT ![Len(cs)].ended = inner]

\* The header given to Core_initialize_block.
InitializeBlockHeader(header) ==
    [parent_hash |-> HeaderHash(header),
     number |-> Inc64(header.number),
     extrinsics_root |-> Zeros(32),
     state_root |-> Zeros(32),
     digest |-> << >>]

\* Result<Result<ValidTransaction, TransactionValidityError>, Error>
DriverOk(validity) == [ok |-> TRUE, error |-> "", detail |-> "", value |-> validity]
DriverErr(error, detail) ==
    [ok |-> FALSE, error |-> error, detail |-> detail, value |-> << >>]
NoResult == [ok |-> FALSE, error |-> "None", detail |-> "", value |-> << >>]

\* Stage1 and Stage2.
Stage1(source, transaction, level) ==
    [stage |-> 1, transaction_source |-> source,
     scale_encoded_transaction |-> transaction, max_log_level |-> level]
Stage2 == [stage |-> 2, transaction_source |-> "", scale_encoded_transaction |-> << >>,
           max_log_level |-> 0]
NoStage == [stage |-> 0, transaction_source |-> "", scale_encoded_transaction |-> << >>,
            max_log_level |-> 0]

\* Query::Finished
Finished(res, virtual_machine) ==
    [kind |-> "Finished", result |-> res, virtual_machine |-> virtual_machine,
     inner |-> NoInner, info |-> NoStage]

\* Query::StorageGet, Query::ClosestDescendantMerkleValue, Query::NextKey: the
\* suspended machine and the stage information.
Suspended(inner, info) ==
    [kind |-> inner.state, result |-> NoResult, virtual_machine |-> NoVm,
     inner |-> inner, info |-> info]

\* No Query: before validate_transaction, and after into_prototype.
NoQuery == [kind |-> "None", result |-> NoResult, virtual_machine |-> NoVm,
            inner |-> NoInner, info |-> NoStage]
Consumed == [kind |-> "Consumed", result |-> NoResult, virtual_machine |-> NoVm,
             inner |-> NoInner, info |-> NoStage]

\* What a handler returns: the Query, and the entry points invoked so far.
Out(q, cs) == [query |-> q, calls |-> cs]

\* Mutant of ForbiddenHostCall: the prototype is dropped with the context.
ForbiddenHostCallDropsVm(ctx) ==
    Finished(DriverErr("ForbiddenHostCall", ""), NoVm)

\* Mutant of ForbiddenHostCall: the offchain request is reported as a failure
\* of the virtual machine.
ForbiddenHostCallAsVmError(ctx) ==
    Finished(DriverErr("WasmVmReadOnly", ""), VmPrototype(ctx))

\* Lines 498-501 and 567-570: the Offchain arm.
ForbiddenHostCall(ctx) ==
    Finished(DriverErr("ForbiddenHostCall", ""), VmPrototype(ctx))

\* The loops of from_step1 and from_step2 answer SignatureVerification and
\* OffchainStorageSet themselves and go round again: the states in which the
\* loop can leave these arms.
InternalRuns(yields) ==
    {yields \o more :
        more \in UNION {[1..n -> InternalKinds] : n \in 0..(MaxYields - Len(yields))}}

\* Mutant of AfterInternal: the loop goes round on a request for storage as
\* well, instead of surfacing it.
AfterInternalAndStorage(inner) ==
    IF inner.state \in InternalKinds \cup SuspendKinds
    THEN {vm \in UNION {VmResume([inner EXCEPT !.yields = y])
                          : y \in InternalRuns(inner.yields)}
            : vm.state \notin InternalKinds}
    ELSE {inner}

AfterInternal(inner) ==
    IF inner.state \in InternalKinds
    THEN {vm \in UNION {VmResume([inner EXCEPT !.yields = y])
                          : y \in InternalRuns(inner.yields)}
            : vm.state \notin InternalKinds}
    ELSE {inner}

\* Mutant of validation_result: the provides list is not looked at.
ValidationResultKeepsEmptyProvides(res) ==
    IF res.ok THEN DriverOk(res.value) ELSE DriverErr("OutputDecodeError", "")

\* Mutant of validation_result: a validity error is made a driver error.
ValidationResultOfValidOnly(res) ==
    IF res.ok /\ res.value.variant = "Valid"
    THEN IF res.value.provides = << >>
         THEN DriverErr("EmptyProvidedTags", "")
         ELSE DriverOk(res.value)
    ELSE DriverErr("OutputDecodeError", "")

\* Lines 517-540: the result made of the decoded output.
validation_result(res) ==
    IF res.ok
    THEN IF res.value.variant = "Valid" /\ res.value.provides = << >>
         THEN DriverErr("EmptyProvidedTags", "")
         ELSE DriverOk(res.value)
    ELSE DriverErr("OutputDecodeError", "")

\* Lines 543-546: the validation call failed.
from_step2_finished_err(inner) ==
    Finished(DriverErr("WasmVmReadOnly", inner.detail), VmPrototype(inner))

\* Lines 506-573, one turn of the loop on a state that leaves it.
from_step2_arm(inner, info, cs) ==
    CASE inner.state = "FinishedOk" ->
            {Out(Finished(validation_result(res), VmPrototype(inner)),
                 Ended(cs, inner))
               : res \in {decode_validate_transaction_return_value(inner.output)}}
      [] inner.state = "FinishedErr" ->
            {Out(from_step2_finished_err(inner), Ended(cs, inner))}
      [] inner.state \in SuspendKinds -> {Out(Suspended(inner, info), cs)}
      [] inner.state = "Offchain" ->
            {Out(ForbiddenHostCall(inner), Ended(cs, inner))}

\* Lines 506-573.
from_step2(inner, info, cs) ==
    UNION {from_step2_arm(vm, info, cs) : vm \in AfterInternal(inner)}

\* Mutant of from_step1_start_validation: the validation call keeps the
\* information of stage 1, and with it the stage.
StartValidationKeepsStage1(inner, info, started) ==
    UNION {IF vm.ok
           THEN from_step2(vm.inner, info, started)
           ELSE {Out(Finished(DriverErr("WasmStart", ""), vm.prototype),
                     NotStarted(started))}
             : vm \in runtime_host_run(VmPrototype(inner), VALIDATION_FUNCTION_NAME)}

\* Lines 454-472: the validation call started after Core_initialize_block,
\* the calls made so far, this one included, in started.
from_step1_start_validation(inner, info, started) ==
    UNION {IF vm.ok
           THEN from_step2(vm.inner, Stage2, started)
           ELSE {Out(Finished(DriverErr("WasmStart", ""), vm.prototype),
                     NotStarted(started))}
             : vm \in runtime_host_run(VmPrototype(inner), VALIDATION_FUNCTION_NAME)}

\* Mutant of from_step1_validation_call: the validation call starts from an
\* empty diff instead of the storage changes of Core_initialize_block.
ValidationCallWithEmptyDiff(inner, info) ==
    Call(VALIDATION_FUNCTION_NAME,
         validate_transaction_runtime_parameters_v2(
             <<info.scale_encoded_transaction>>, info.transaction_source),
         "empty", info.max_log_level)

\* Lines 454-464: the runtime_host::Config of the validation call of stage 1.
from_step1_validation_call(inner, info) ==
    Call(VALIDATION_FUNCTION_NAME,
         validate_transaction_runtime_parameters_v2(
             <<info.scale_encoded_transaction>>, info.transaction_source),
         inner.storage_changes, info.max_log_level)

\* Mutant of from_step1_finished_ok: the run ends when Core_initialize_block
\* does, the validation function is not called.
FinishedOkEndsTheRun(inner, info, cs) ==
    {Out(Finished(DriverErr("OutputDecodeError", ""), VmPrototype(inner)),
         Ended(cs, inner))}

\* Lines 445-473: Core_initialize_block finished.
from_step1_finished_ok(inner, info, cs) ==
    IF inner.output # << >>
    THEN {Out(Finished(DriverErr("OutputDecodeError", ""), VmPrototype(inner)),
              Ended(cs, inner))}
    ELSE UNION {from_step1_start_validation(inner, info, started)
                  : started \in {Append(Ended(cs, inner),
                                        from_step1_validation_call(inner, info))}}

\* Mutant of from_step1_finished_err: the error of stage 2 is used in stage 1.
FinishedErrOfStage2InStage1(inner) ==
    Finished(DriverErr("WasmVmReadOnly", inner.detail), VmPrototype(inner))

\* Lines 474-477: Core_initialize_block failed.
from_step1_finished_err(inner) ==
    Finished(DriverErr("WasmVmReadWrite", inner.detail), VmPrototype(inner))

\* Lines 442-504, one turn of the loop on a state that leaves it.
from_step1_arm(inner, info, cs) ==
    CASE inner.state = "FinishedOk" -> from_step1_finished_ok(inner, info, cs)
      [] inner.state = "FinishedErr" ->
            {Out(from_step1_finished_err(inner), Ended(cs, inner))}
      [] inner.state \in SuspendKinds -> {Out(Suspended(inner, info), cs)}
      [] inner.state = "Offchain" ->
            {Out(ForbiddenHostCall(inner), Ended(cs, inner))}

\* Lines 442-504.
from_step1(inner, info, cs) ==
    UNION {from_step1_arm(vm, info, cs) : vm \in AfterInternal(inner)}

\* Lines 324-338: the runtime_host::Config of Core_initialize_block.
initialize_block_call(cfg) ==
    Call(CORE_INITIALIZE_BLOCK, InitializeBlockHeader(cfg.scale_encoded_header),
         "empty", cfg.max_log_level)

\* Mutant of stage1_of: only the first segment of the transaction is kept.
Stage1OfFirstSegment(cfg) ==
    Stage1(cfg.source,
           IF cfg.scale_encoded_transaction = << >> THEN << >>
           ELSE Head(cfg.scale_encoded_transaction),
           cfg.max_log_level)

\* Lines 341-351: what stage 1 keeps for the validation call.
stage1_of(cfg) ==
    Stage1(cfg.source, Concat(cfg.scale_encoded_transaction), cfg.max_log_level)

\* Lines 353-359: the outcome of starting Core_initialize_block.
validate_v2_started(cfg, stage1, started) ==
    UNION {IF vm.ok
           THEN from_step1(vm.inner, stage1, started)
           ELSE {Out(Finished(DriverErr("WasmStart", ""), vm.prototype),
                     NotStarted(started))}
             : vm \in runtime_host_run(cfg.runtime, CORE_INITIALIZE_BLOCK)}

\* Lines 311-360: the arm Some(2).
validate_v2(cfg) ==
    IF ~cfg.scale_encoded_header.valid
    THEN {Out(Finished(DriverErr("InvalidHeader", ""), cfg.runtime), << >>)}
    ELSE UNION {validate_v2_started(cfg, stage1, started)
                  : stage1 \in {stage1_of(cfg)},
                    started \in {<<initialize_block_call(cfg)>>}}

\* Lines 363-377: the runtime_host::Config of the validation call of version 3.
validate_v3_call(cfg) ==
    Call(VALIDATION_FUNCTION_NAME,
         validate_transaction_runtime_parameters_v3(
             cfg.scale_encoded_transaction, cfg.source,
             HeaderHash(cfg.scale_encoded_header)),
         "empty", cfg.max_log_level)

\* Lines 379-384: the outcome of starting the validation call.
validate_v3_started(cfg, started) ==
    UNION {IF vm.ok
           THEN from_step2(vm.inner, Stage2, started)
           ELSE {Out(Finished(DriverErr("WasmStart", ""), vm.prototype),
                     NotStarted(started))}
             : vm \in runtime_host_run(cfg.runtime, VALIDATION_FUNCTION_NAME)}

\* Mutant of validate_v3: the header is decoded first, as in the arm Some(2).
ValidateV3DecodesHeader(cfg) ==
    IF ~cfg.scale_encoded_header.valid
    THEN {Out(Finished(DriverErr("InvalidHeader", ""), cfg.runtime), << >>)}
    ELSE UNION {validate_v3_started(cfg, started)
                  : started \in {<<validate_v3_call(cfg)>>}}

\* Lines 361-384: the arm Some(3).
validate_v3(cfg) ==
    UNION {validate_v3_started(cfg, started)
             : started \in {<<validate_v3_call(cfg)>>}}

\* Mutant of unknown_api_version: an unknown version is run as version 3.
UnknownVersionAsV3(cfg) == validate_v3(cfg)

\* Lines 385-388: any other version, and no version.
unknown_api_version(cfg) ==
    {Out(Finished(DriverErr("UnknownApiVersion", ""), cfg.runtime), << >>)}

\* Lines 293-390.
validate_transaction(cfg) ==
    CASE cfg.api_version = <<2>> -> validate_v2(cfg)
      [] cfg.api_version = <<3>> -> validate_v3(cfg)
      [] OTHER -> unknown_api_version(cfg)

\* The call that was going on when a method of a suspended Query is entered:
\* what the method does to it is recorded on the last call of the history.
Continued == Call("", << >>, "", 0)

\* The history of calls after a method that left the calls cs.
Recorded(history, cs) ==
    IF cs # << >> /\ cs[1].function_to_call = ""
    THEN [history EXCEPT ![Len(history)].started = cs[1].started,
                         ![Len(history)].ended = cs[1].ended] \o Tail(cs)
    ELSE history \o cs

\* inject_value, inject_merkle_value, resume_unknown and inject_key: the
\* machine runs to its next yield, and from_step1 or from_step2 goes on.
resume(inner, info) ==
    UNION {IF info.stage = 1 THEN from_step1(next, info, <<Continued>>)
           ELSE from_step2(next, info, <<Continued>>)
             : next \in VmResume(inner)}

\* The Config values validate_transaction is called with.
Configs ==
    {[runtime |-> vm, api_version |-> v, scale_encoded_header |-> h,
      block_number_bytes |-> WidthOfNumber(h), scale_encoded_transaction |-> sub.tx,
      source |-> sub.source, max_log_level |-> sub.level]
        : vm \in VmIds, v \in ApiVersions, h \in Headers, sub \in Submissions}

\* The machines that wait for the caller, in function.
SuspendedVms(function) ==
    {Vm(y[Len(y)], function, vm, y, << >>, "", "")
        : vm \in VmIds,
          y \in {t \in UNION {[1..n -> SuspendKinds \cup InternalKinds]
                                 : n \in 1..MaxYields}
                   : t[Len(t)] \in SuspendKinds}}

\* What a suspended Query holds: the machine and the stage.
Suspensions ==
    {[inner |-> inner, info |-> stage1_of(cfg)]
        : inner \in SuspendedVms(CORE_INITIALIZE_BLOCK), cfg \in Configs}
    \cup {[inner |-> inner, info |-> Stage2]
            : inner \in SuspendedVms(VALIDATION_FUNCTION_NAME)}

\* validate_transaction on each Config, and the methods of a suspended Query
\* on each Query, worked out once.
validate_transaction_outcomes == [cfg \in Configs |-> validate_transaction(cfg)]
resume_outcomes == [s \in Suspensions |-> resume(s.inner, s.info)]

InitDriver ==
    /\ vconfig \in Configs
    /\ query = NoQuery
    /\ caller_vm = vconfig.runtime
    /\ calls = << >>
    /\ config = << >>
    /\ pc = "idle"
    /\ randomness = << >>
    /\ authorities_list = << >>
    /\ batch = << >>
    /\ msg_capacity = 0
    /\ next_precommit = 0
    /\ result = << >>
    /\ commit_input = << >>
    /\ grandpa_commit = << >>
    /\ partial_commit = << >>
    /\ return_value = << >>
    /\ decoded_output = << >>
    /\ reported = << >>

\* The caller calls validate_transaction, moving the prototype into the Config.
ValidateTransaction ==
    /\ query.kind = "None"
    /\ caller_vm # NoVm
    /\ \E out \in validate_transaction_outcomes[[vconfig EXCEPT !.runtime = caller_vm]] :
          /\ query' = out.query
          /\ calls' = Recorded(calls, out.calls)
    /\ caller_vm' = NoVm
    /\ UNCHANGED <<vconfig, verify_vars, decode_vars, validity_vars>>

\* StorageGet::inject_value
InjectValue ==
    /\ query.kind = "StorageGet"
    /\ \E out \in resume_outcomes[[inner |-> query.inner, info |-> query.info]] :
          /\ query' = out.query
          /\ calls' = Recorded(calls, out.calls)
    /\ UNCHANGED <<vconfig, caller_vm, verify_vars, decode_vars, validity_vars>>

\* ClosestDescendantMerkleValue::inject_merkle_value
InjectMerkleValue ==
    /\ query.kind = "ClosestDescendantMerkleValue"
    /\ \E out \in resume_outcomes[[inner |-> query.inner, info |-> query.info]] :
          /\ query' = out.query
          /\ calls' = Recorded(calls, out.calls)
    /\ UNCHANGED <<vconfig, caller_vm, verify_vars, decode_vars, validity_vars>>

\* ClosestDescendantMerkleValue::resume_unknown
ResumeUnknown ==
    /\ query.kind = "ClosestDescendantMerkleValue"
    /\ \E out \in resume_outcomes[[inner |-> query.inner, info |-> query.info]] :
          /\ query' = out.query
          /\ calls' = Recorded(calls, out.calls)
    /\ UNCHANGED <<vconfig, caller_vm, verify_vars, decode_vars, validity_vars>>

\* NextKey::inject_key
InjectKey ==
    /\ query.kind = "NextKey"
    /\ \E out \in resume_outcomes[[inner |-> query.inner, info |-> query.info]] :
          /\ query' = out.query
          /\ calls' = Recorded(calls, out.calls)
    /\ UNCHANGED <<vconfig, caller_vm, verify_vars, decode_vars, validity_vars>>

\* Mutant of into_prototype: only a Finished gives its machine back, a
\* suspension is dropped with the machine in it.
IntoPrototypeOfFinishedOnly(q) ==
    IF q.kind = "Finished" THEN q.virtual_machine ELSE NoVm

\* Query::into_prototype, lines 416-440.
into_prototype(q) ==
    IF q.kind = "Finished" THEN q.virtual_machine ELSE VmPrototype(q.inner)

IntoPrototype ==
    /\ query.kind \in {"Finished"} \cup SuspendKinds
    /\ caller_vm' = into_prototype(query)
    /\ query' = Consumed
    /\ UNCHANGED <<vconfig, calls, verify_vars, decode_vars, validity_vars>>

NextDriver ==
    \/ ValidateTransaction
    \/ InjectValue
    \/ InjectMerkleValue
    \/ ResumeUnknown
    \/ InjectKey
    \/ IntoPrototype

\* The caller takes the prototype out of a Finished.
TakeFinished ==
    /\ query.kind = "Finished"
    /\ IntoPrototype

\* A caller that answers every suspension and does not cancel.
NextAnswering ==
    \/ ValidateTransaction
    \/ InjectValue
    \/ InjectMerkleValue
    \/ ResumeUnknown
    \/ InjectKey
    \/ TakeFinished

\* The caller goes on as long as there is something for it to do; a machine
\* makes at most MaxYields yields per entry point.
SpecProgress == InitDriver /\ [][NextAnswering]_vars /\ WF_vars(NextAnswering)

SpecVerify == InitVerify /\ [][NextVerify]_vars

SpecDriver == InitDriver /\ [][NextDriver]_vars

-----------------------------------------------------------------------------
(* decode_grandpa_commit and decode_partial_grandpa_commit.                *)
(* nom::sequence::tuple gives the set of its successes, empty when one of   *)
(* its parsers fails: every nom error, Incomplete included, is a failure.  *)

\* nom::bytes::streaming::take(count)
take(count, bytes) ==
    IF Len(bytes) < count THEN ParseFail
    ELSE ParseOk(Take(bytes, count), Drop(bytes, count))

\* u64::from_le_bytes of a slice copied to the start of [0; 8].
from_le_bytes(slice) ==
    [i \in 1..4 |->
        (IF 2 * i - 1 <= Len(slice) THEN slice[2 * i - 1] ELSE 0)
        + 256 * (IF 2 * i <= Len(slice) THEN slice[2 * i] ELSE 0)]

\* util::nom_varsize_number_decode_u64(block_number_bytes), for numbers of at
\* most eight bytes.
nom_varsize_number_decode_u64(block_number_bytes, bytes) ==
    IF Len(bytes) < block_number_bytes THEN ParseFail
    ELSE ParseOk(from_le_bytes(Take(bytes, block_number_bytes)),
                 Drop(bytes, block_number_bytes))

\* Lines 150-153: the UnsignedPrecommitRef of a hash and a number.
map_unsigned_precommit(target_hash, target_number) ==
    IF ~target_number.ok THEN ParseFail
    ELSE ParseOk([target_hash |-> target_hash, target_number |-> target_number.value],
                 target_number.rest)

\* Lines 141-157, after the 32 bytes of the hash.
unsigned_precommit_number(block_number_bytes, target_hash) ==
    IF ~target_hash.ok THEN ParseFail
    ELSE map_unsigned_precommit(
             target_hash.value,
             nom_varsize_number_decode_u64(block_number_bytes, target_hash.rest))

\* Lines 141-157.
unsigned_precommit(block_number_bytes, bytes) ==
    unsigned_precommit_number(block_number_bytes, take(32, bytes))

\* Lines 104-110: nom::multi::many_m_n(num_elems, num_elems,
\* unsigned_precommit(block_number_bytes)): num_elems more precommits after
\* those in acc, of which precommit is the first.
RECURSIVE many_unsigned_precommit(_, _, _, _)
many_unsigned_precommit(block_number_bytes, precommit, num_elems, acc) ==
    IF ~precommit.ok THEN ParseFail
    ELSE IF num_elems = 1 THEN ParseOk(Append(acc, precommit.value), precommit.rest)
    ELSE many_unsigned_precommit(
             block_number_bytes,
             unsigned_precommit(block_number_bytes, precommit.rest),
             num_elems - 1, Append(acc, precommit.value))

\* The items of a parsed list, last first.
LastFirst(r) ==
    IF r.ok THEN ParseOk([i \in 1..Len(r.value) |-> r.value[Len(r.value) + 1 - i]], r.rest)
    ELSE r

\* Mutant of counted_precommits: the precommits come out last first.
CountedPrecommitsLastFirst(block_number_bytes, num_elems) ==
    IF ~num_elems.ok THEN ParseFail
    ELSE IF num_elems.value = 0 THEN ParseOk(<< >>, num_elems.rest)
    ELSE LastFirst(many_unsigned_precommit(
                       block_number_bytes,
                       unsigned_precommit(block_number_bytes, num_elems.rest),
                       num_elems.value, << >>))

\* The precommits counted by the number just parsed.
counted_precommits(block_number_bytes, num_elems) ==
    IF ~num_elems.ok THEN ParseFail
    ELSE IF num_elems.value = 0 THEN ParseOk(<< >>, num_elems.rest)
    ELSE many_unsigned_precommit(
             block_number_bytes,
             unsigned_precommit(block_number_bytes, num_elems.rest),
             num_elems.value, << >>)

\* Lines 103-110: the precommits and their compact prefix.
precommits_list(block_number_bytes, bytes) ==
    counted_precommits(block_number_bytes, nom_scale_compact_usize(bytes))

\* Lines 115-127, after the 64 bytes of the signature.
auth_data_pubkey(sig, pubkey) ==
    IF ~pubkey.ok THEN ParseFail
    ELSE ParseOk(<<sig.value, pubkey.value>>, pubkey.rest)

\* Lines 115-127: a signature of 64 bytes and a public key of 32.
auth_data_sig(sig) ==
    IF ~sig.ok THEN ParseFail ELSE auth_data_pubkey(sig, take(32, sig.rest))

auth_data_item(bytes) == auth_data_sig(take(64, bytes))

\* Lines 112-128: nom::multi::many_m_n(num_elems, num_elems, ..): num_elems
\* more items after those in acc, of which item is the first.
RECURSIVE many_auth_data(_, _, _)
many_auth_data(item, num_elems, acc) ==
    IF ~item.ok THEN ParseFail
    ELSE IF num_elems = 1 THEN ParseOk(Append(acc, item.value), item.rest)
    ELSE many_auth_data(auth_data_item(item.rest), num_elems - 1,
                        Append(acc, item.value))

\* Mutant of counted_auth_data: a number that cannot be read counts no
\* signature and ends the commit.
CountedAuthDataOrNone(num_elems) ==
    IF ~num_elems.ok THEN ParseOk(<< >>, << >>)
    ELSE IF num_elems.value = 0 THEN ParseOk(<< >>, num_elems.rest)
    ELSE many_auth_data(auth_data_item(num_elems.rest), num_elems.value, << >>)

\* The signatures and public keys counted by the number just parsed.
counted_auth_data(num_elems) ==
    IF ~num_elems.ok THEN ParseFail
    ELSE IF num_elems.value = 0 THEN ParseOk(<< >>, num_elems.rest)
    ELSE many_auth_data(auth_data_item(num_elems.rest), num_elems.value, << >>)

\* Lines 111-129: the signatures and public keys, and their own compact
\* prefix.
auth_data_list(bytes) == counted_auth_data(nom_scale_compact_usize(bytes))

\* Mutant of compact_commit: there are as many signatures as precommits, and
\* the second prefix must say so.
CompactCommitOfOneLength(block_number_bytes, bytes) ==
    UNION {UNION {UNION {
        {ParseOk([target_hash |-> target_hash.value,
                  target_number |-> target_number.value,
                  precommits |-> list.value,
                  auth_data |-> auth_data.value], auth_data.rest)
           : auth_data \in {a \in Success(auth_data_list(list.rest))
                              : Len(a.value) = Len(list.value)}}
           : list \in Success(precommits_list(block_number_bytes, target_number.rest))}
           : target_number \in Success(nom_varsize_number_decode_u64(
                                           block_number_bytes, target_hash.rest))}
           : target_hash \in Success(take(32, bytes))}

\* Lines 96-139.
compact_commit(block_number_bytes, bytes) ==
    UNION {UNION {UNION {
        {ParseOk([target_hash |-> target_hash.value,
                  target_number |-> target_number.value,
                  precommits |-> list.value,
                  auth_data |-> auth_data.value], auth_data.rest)
           : auth_data \in Success(auth_data_list(list.rest))}
           : list \in Success(precommits_list(block_number_bytes, target_number.rest))}
           : target_number \in Success(nom_varsize_number_decode_u64(
                                           block_number_bytes, target_hash.rest))}
           : target_hash \in Success(take(32, bytes))}

\* Mutant of commit_message: the set comes before the round.
CommitMessageSetIdFirst(block_number_bytes, bytes) ==
    UNION {UNION {
        {ParseOk([round_number |-> round_number.value, set_id |-> set_id.value,
                  message |-> message.value], message.rest)
           : message \in compact_commit(block_number_bytes, round_number.rest)}
           : round_number \in Success(le_u64(set_id.rest))}
           : set_id \in Success(le_u64(bytes))}

\* Lines 76-94.
commit_message(block_number_bytes, bytes) ==
    UNION {UNION {
        {ParseOk([round_number |-> round_number.value, set_id |-> set_id.value,
                  message |-> message.value], message.rest)
           : message \in compact_commit(block_number_bytes, set_id.rest)}
           : set_id \in Success(le_u64(round_number.rest))}
           : round_number \in Success(le_u64(bytes))}

\* Mutant of decode_grandpa_commit: bytes left after the commit are accepted.
DecodeGrandpaCommitWithRemainder(scale_encoded, block_number_bytes) ==
    decoded(commit_message(block_number_bytes, scale_encoded))

\* Lines 21-29.
decode_grandpa_commit(scale_encoded, block_number_bytes) ==
    decoded(all_consuming(commit_message(block_number_bytes, scale_encoded)))

\* Lines 39-42: the match on the result, Ok((commit, remainder)) or Err.
partially_decoded(successes) ==
    IF successes = {} THEN [ok |-> FALSE, value |-> << >>, remainder |-> << >>]
    ELSE [ok |-> TRUE, value |-> (CHOOSE r \in successes : TRUE).value,
          remainder |-> (CHOOSE r \in successes : TRUE).rest]

\* Lines 35-43.
decode_partial_grandpa_commit(scale_encoded, block_number_bytes) ==
    partially_decoded(commit_message(block_number_bytes, scale_encoded))

\* ---- The inputs of the decoders ----

\* Most precommits, and most signatures, of an encoded commit.
MaxCommitItems == 2

\* Most bytes that follow an encoded commit.
MaxExtra == 2

\* The least number of items whose compact prefix takes two bytes.
TwoByteCount == 64

BlockNumberBytes == {1, 4}

Bytes(n, v) == [i \in 1..n |-> v]

\* The SCALE compact encoding of a length below 2^14.
compact_usize(n) ==
    IF n < 64 THEN <<4 * n>> ELSE <<(4 * (n % 64)) + 1, n \div 64>>

\* The first block_number_bytes bytes of a block number.
number_bytes(n, block_number_bytes) == Take(to_le_bytes(n), block_number_bytes)

\* The i-th precommit of an encoded commit, and the i-th signature and key.
encoded_precommit(i, block_number_bytes) ==
    Bytes(32, 16 + (i % 16)) \o number_bytes(<<59184 + i, 77, 0, 0>>, block_number_bytes)

encoded_auth_data(i) == Bytes(64, 32 + (i % 16)) \o Bytes(32, 48 + (i % 16))

RECURSIVE Flat(_)
Flat(seqs) == IF seqs = << >> THEN << >> ELSE Head(seqs) \o Flat(Tail(seqs))

\* A commit of round 3669 and set 3490 for block 5105457, with n precommits
\* and m signatures.
encoded_commit(n, m, block_number_bytes) ==
    to_le_bytes(Small(3669)) \o to_le_bytes(Small(3490))
    \o Bytes(32, 182) \o number_bytes(<<59185, 77, 0, 0>>, block_number_bytes)
    \o compact_usize(n)
    \o Flat([i \in 1..n |-> encoded_precommit(i, block_number_bytes)])
    \o compact_usize(m)
    \o Flat([i \in 1..m |-> encoded_auth_data(i)])

ExtraBytes == [i \in 1..MaxExtra |-> 4 * i]

\* Every prefix of an encoded commit, and the commit followed by extra bytes.
CutOrExtended(commit) ==
    {Take(commit \o ExtraBytes, len) : len \in 0..(Len(commit) + MaxExtra)}

\* The commit with another byte where the number of precommits is.
WithPrecommitsPrefix(commit, block_number_bytes) ==
    {[commit EXCEPT ![8 + 8 + 32 + block_number_bytes + 1] = byte]
        : byte \in {0, 4, 8, 12, 1, 2, 3, 255}}

Buffers(block_number_bytes) ==
    UNION {CutOrExtended(encoded_commit(n, m, block_number_bytes))
             \cup WithPrecommitsPrefix(encoded_commit(n, m, block_number_bytes),
                                       block_number_bytes)
             : n \in 0..MaxCommitItems, m \in 0..MaxCommitItems}

\* Commits with so many precommits that their number takes two bytes.
LongBuffers(block_number_bytes) ==
    UNION {{Take(encoded_commit(TwoByteCount, m, block_number_bytes) \o ExtraBytes, len)
              : len \in {Len(encoded_commit(TwoByteCount, m, block_number_bytes)) + d
                           : d \in -1..1}}
             : m \in {0, 1}}

\* The commit of the test basic_decode_commit, whose block numbers have 4
\* bytes.
basic_decode_commit ==
    <<
      85, 14, 0, 0, 0, 0, 0, 0, 162, 13, 0, 0, 0, 0, 0, 0, 182, 68, 115,
      35, 15, 201, 152, 195, 12, 181, 59, 244, 231, 124, 34, 248, 98, 253,
      4, 180, 158, 70, 161, 84, 76, 118, 151, 68, 101, 104, 187, 82, 49,
      231, 77, 0, 28, 182, 68, 115, 35, 15, 201, 152, 195, 12, 181, 59,
      244, 231, 124, 34, 248, 98, 253, 4, 180, 158, 70, 161, 84, 76, 118,
      151, 68, 101, 104, 187, 82, 49, 231, 77, 0, 182, 68, 115, 35, 15,
      201, 152, 195, 12, 181, 59, 244, 231, 124, 34, 248, 98, 253, 4, 180,
      158, 70, 161, 84, 76, 118, 151, 68, 101, 104, 187, 82, 49, 231, 77,
      0, 182, 68, 115, 35, 15, 201, 152, 195, 12, 181, 59, 244, 231, 124,
      34, 248, 98, 253, 4, 180, 158, 70, 161, 84, 76, 118, 151, 68, 101,
      104, 187, 82, 49, 231, 77, 0, 182, 68, 115, 35, 15, 201, 152, 195,
      12, 181, 59, 244, 231, 124, 34, 248, 98, 253, 4, 180, 158, 70, 161,
      84, 76, 118, 151, 68, 101, 104, 187, 82, 49, 231, 77, 0, 182, 68,
      115, 35, 15, 201, 152, 195, 12, 181, 59, 244, 231, 124, 34, 248, 98,
      253, 4, 180, 158, 70, 161, 84, 76, 118, 151, 68, 101, 104, 187, 82,
      49, 231, 77, 0, 182, 68, 115, 35, 15, 201, 152, 195, 12, 181, 59,
      244, 231, 124, 34, 248, 98, 253, 4, 180, 158, 70, 161, 84, 76, 118,
      151, 68, 101, 104, 187, 82, 49, 231, 77, 0, 182, 68, 115, 35, 15,
      201, 152, 195, 12, 181, 59, 244, 231, 124, 34, 248, 98, 253, 4, 180,
      158, 70, 161, 84, 76, 118, 151, 68, 101, 104, 187, 82, 49, 231, 77,
      0, 28, 189, 185, 216, 33, 163, 12, 201, 104, 162, 255, 11, 241, 156,
      90, 244, 205, 251, 44, 45, 139, 129, 117, 178, 85, 129, 78, 58, 255,
      76, 232, 199, 85, 236, 30, 227, 87, 50, 34, 22, 27, 241, 6, 33, 137,
      55, 5, 190, 36, 122, 61, 112, 51, 99, 34, 119, 46, 185, 156, 188,
      133, 140, 103, 33, 10, 45, 154, 173, 12, 30, 12, 25, 95, 195, 198,
      235, 98, 29, 248, 44, 121, 73, 203, 132, 51, 196, 138, 65, 42, 3,
      49, 169, 182, 129, 146, 242, 193, 228, 217, 26, 9, 233, 239, 30,
      213, 103, 10, 33, 27, 44, 13, 178, 236, 216, 167, 190, 9, 123, 151,
      143, 1, 199, 58, 77, 121, 122, 215, 22, 19, 238, 190, 216, 8, 62, 6,
      216, 37, 197, 124, 141, 51, 196, 205, 205, 193, 24, 86, 246, 60, 16,
      139, 66, 51, 93, 168, 159, 147, 77, 90, 91, 8, 64, 14, 252, 119, 77,
      211, 141, 23, 18, 115, 222, 3, 2, 22, 42, 105, 85, 176, 71, 232,
      230, 141, 12, 9, 124, 205, 194, 191, 90, 47, 202, 233, 218, 161, 80,
      55, 8, 134, 223, 202, 4, 137, 45, 10, 71, 90, 162, 252, 99, 19, 252,
      17, 175, 5, 75, 208, 81, 0, 96, 218, 5, 89, 250, 183, 161, 188, 227,
      62, 107, 34, 63, 155, 28, 176, 141, 174, 113, 162, 229, 148, 55, 39,
      65, 36, 97, 159, 198, 238, 222, 34, 76, 187, 40, 19, 109, 1, 67,
      146, 40, 75, 194, 208, 80, 208, 221, 175, 151, 239, 239, 127, 65,
      39, 237, 145, 130, 36, 154, 135, 68, 105, 52, 102, 49, 62, 137, 34,
      187, 159, 55, 157, 88, 195, 49, 116, 72, 11, 37, 132, 176, 74, 69,
      60, 157, 67, 36, 156, 165, 71, 164, 86, 220, 240, 241, 13, 40, 125,
      79, 147, 27, 56, 254, 198, 231, 108, 187, 214, 187, 98, 229, 123,
      116, 160, 126, 192, 98, 132, 247, 206, 70, 228, 175, 152, 217, 252,
      4, 109, 98, 24, 90, 117, 184, 11, 107, 32, 186, 217, 155, 44, 253,
      198, 120, 175, 170, 229, 66, 122, 141, 158, 75, 68, 108, 104, 182,
      223, 91, 126, 210, 38, 84, 143, 10, 142, 225, 77, 169, 12, 215, 222,
      158, 85, 4, 111, 196, 47, 56, 147, 93, 1, 202, 247, 137, 115, 30,
      127, 94, 191, 31, 223, 162, 16, 73, 219, 118, 52, 40, 255, 191, 183,
      70, 132, 115, 91, 214, 191, 156, 189, 203, 208, 152, 165, 115, 64,
      123, 209, 153, 80, 44, 134, 143, 188, 140, 168, 162, 134, 178, 192,
      122, 10, 137, 41, 133, 127, 72, 223, 16, 65, 170, 114, 53, 173, 180,
      59, 208, 190, 54, 96, 123, 199, 137, 214, 115, 240, 73, 87, 253,
      137, 81, 36, 66, 175, 76, 40, 52, 216, 110, 234, 219, 158, 208, 142,
      85, 168, 43, 164, 19, 154, 21, 125, 174, 153, 165, 45, 54, 100, 36,
      196, 46, 95, 64, 192, 178, 156, 16, 112, 5, 237, 207, 113, 132, 125,
      148, 34, 132, 105, 148, 216, 148, 182, 33, 74, 215, 161, 252, 44,
      24, 67, 77, 87, 6, 94, 109, 38, 64, 10, 195, 28, 194, 169, 175, 7,
      98, 210, 151, 4, 221, 136, 161, 204, 171, 251, 101, 63, 21, 245, 84,
      189, 77, 59, 75, 136, 44, 17, 217, 119, 206, 191, 191, 137, 127, 81,
      55, 208, 225, 33, 209, 59, 83, 121, 234, 160, 191, 38, 82, 1, 102,
      178, 140, 58, 20, 131, 206, 37, 148, 106, 135, 149, 74, 57, 27, 84,
      215, 0, 47, 68, 1, 8, 139, 183, 125, 169, 4, 165, 168, 86, 218, 178,
      95, 157, 185, 64, 45, 211, 221, 151, 205, 240, 69, 133, 200, 15,
      213, 170, 162, 127, 93, 224, 36, 86, 116, 44, 42, 22, 255, 144, 193,
      35, 175, 145, 62, 184, 67, 143, 199, 253, 37, 115, 23, 154, 213,
      141, 122, 105
    >>

CommitInputs ==
    UNION {{[scale_encoded |-> bytes, block_number_bytes |-> b] : bytes \in Buffers(b)}
             : b \in BlockNumberBytes}
    \cup {[scale_encoded |-> bytes, block_number_bytes |-> 1]
            : bytes \in LongBuffers(1)}
    \cup {[scale_encoded |-> basic_decode_commit, block_number_bytes |-> 4]}

\* ---- The decoders, called on an input ----

NotCalled == [ok |-> FALSE, value |-> "not called"]

InitDecode ==
    /\ commit_input \in CommitInputs
    /\ grandpa_commit = NotCalled
    /\ partial_commit = NotCalled
    /\ return_value = << >>
    /\ decoded_output = << >>
    /\ reported = << >>
    /\ config = << >>
    /\ pc = "idle"
    /\ randomness = << >>
    /\ authorities_list = << >>
    /\ batch = << >>
    /\ msg_capacity = 0
    /\ next_precommit = 0
    /\ result = << >>
    /\ vconfig = << >>
    /\ query = << >>
    /\ caller_vm = "none"
    /\ calls = << >>

DecodeGrandpaCommit ==
    /\ grandpa_commit = NotCalled
    /\ grandpa_commit' = decode_grandpa_commit(commit_input.scale_encoded,
                                               commit_input.block_number_bytes)
    /\ UNCHANGED <<commit_input, partial_commit, verify_vars, driver_vars, validity_vars>>

DecodePartialGrandpaCommit ==
    /\ partial_commit = NotCalled
    /\ partial_commit' = decode_partial_grandpa_commit(commit_input.scale_encoded,
                                                       commit_input.block_number_bytes)
    /\ UNCHANGED <<commit_input, grandpa_commit, verify_vars, driver_vars, validity_vars>>

NextDecode == DecodeGrandpaCommit \/ DecodePartialGrandpaCommit

SpecDecode == InitDecode /\ [][NextDecode]_vars

-----------------------------------------------------------------------------
(* The return value of the validation function: the bytes a runtime may    *)
(* return, decode_validate_transaction_return_value on them, and the       *)
(* result from_step2 makes of a machine that finished with them.           *)

\* Most tags in a list of tags.
MaxTags == 2
\* Most bytes after a complete value.
MaxTrailing == 2

\* Tag number i: two bytes, none, one byte, and so on.
Tag(i) == [j \in 1..((i + 1) % 3) |-> 16 + i]

TagLists == {[i \in 1..n |-> Tag(i)] : n \in 0..MaxTags}

\* A list of tags as the runtime writes it: the compact number of tags, then
\* each tag after its compact length.
encoded_tags(list) ==
    compact_usize(Len(list))
    \o Flat([i \in 1..Len(list) |-> compact_usize(Len(list[i])) \o list[i]])

\* A ValidTransaction as the runtime writes it after the byte 0; propagate is
\* the byte written for the bool.
encoded_valid(priority, requires, provides, longevity, propagate) ==
    <<0>> \o to_le_bytes(priority) \o encoded_tags(requires)
    \o encoded_tags(provides) \o to_le_bytes(longevity) \o <<propagate>>

Priorities == {Small(4), NBytes}
Longevities == {Small(0), Small(1), NMax}
BoolBytes == {0, 1, 2}

\* The values written with a longevity and a bool of any kind.
ValidOutputs ==
    {encoded_valid(priority, requires, provides, longevity, propagate) :
        priority \in Priorities, requires \in TagLists, provides \in TagLists,
        longevity \in Longevities, propagate \in BoolBytes}

\* The kind bytes a runtime may write, those of no kind included, and the
\* bytes that may follow.
KindBytes == (0..11) \cup {255}
CustomBytes == {0, 9, 255}

\* A TransactionValidityError as the runtime writes it after the byte 1, with
\* up to MaxTrailing + 1 bytes after the kind.
ErrorOutputs ==
    UNION {{<<1, variant, kind>> \o extra :
                variant \in 0..2, kind \in KindBytes,
                extra \in [1..n -> CustomBytes]} : n \in 0..(MaxTrailing + 1)}

Prefixes(bytes) == {Take(bytes, n) : n \in 0..Len(bytes)}

Extended(bytes) ==
    UNION {{bytes \o extra : extra \in [1..n -> {0, 1}]} : n \in 1..MaxTrailing}

\* The same value after another first byte.
OtherFirstByte(bytes) == {<<first>> \o Tail(bytes) : first \in {2, 255}}

ReturnValues ==
    UNION {Prefixes(bytes) \cup Extended(bytes) \cup OtherFirstByte(bytes) :
              bytes \in ValidOutputs}
    \cup UNION {Prefixes(bytes) : bytes \in ErrorOutputs}

InitValidity ==
    /\ return_value \in ReturnValues
    /\ decoded_output = NotCalled
    /\ reported = NotCalled
    /\ config = << >>
    /\ pc = "idle"
    /\ randomness = << >>
    /\ authorities_list = << >>
    /\ batch = << >>
    /\ msg_capacity = 0
    /\ next_precommit = 0
    /\ result = << >>
    /\ vconfig = << >>
    /\ query = << >>
    /\ caller_vm = "none"
    /\ calls = << >>
    /\ commit_input = << >>
    /\ grandpa_commit = << >>
    /\ partial_commit = << >>

\* Lines 283-290.
DecodeValidateTransactionReturnValue ==
    /\ decoded_output = NotCalled
    /\ decoded_output' = decode_validate_transaction_return_value(return_value)
    /\ UNCHANGED <<return_value, reported, verify_vars, driver_vars, decode_vars>>

\* Lines 509-541: the arm of from_step2 for a machine that finished with
\* return_value as its output.
FromStep2FinishedOk ==
    /\ reported = NotCalled
    /\ reported' = validation_result(
                       decode_validate_transaction_return_value(return_value))
    /\ UNCHANGED <<return_value, decoded_output, verify_vars, driver_vars, decode_vars>>

NextValidity == DecodeValidateTransactionReturnValue \/ FromStep2FinishedOk

SpecValidity == InitValidity /\ [][NextValidity]_vars

-----------------------------------------------------------------------------
(* Properties of verify.                                                   *)

Done == pc = "done"

\* The distinct authorities of the Config, and their number.
Authorities == Range(config.authorities_list)
NumAuthorities == Cardinality(Authorities)

KeyOf(i) == precommits[i].authority_public_key

AllAuthorities == \A i \in 1..num_precommits : KeyOf(i) \in Authorities
AllDistinct ==
    \A i, j \in 1..num_precommits : i # j => KeyOf(i) # KeyOf(j)
QuorumMet == 3 * num_precommits > 2 * NumAuthorities

\* Whether batch.verify has run: it draws from the PRNG after the 16 bytes of
\* the hasher key.
BatchVerificationRan == randomness.drawn > 16

\* Precommit j carries the key of an earlier precommit.
Repeats(j) == \E i \in 1..(j - 1) : KeyOf(i) = KeyOf(j)
HasRepeat == \E j \in 1..num_precommits : Repeats(j)
FirstRepeat == CHOOSE j \in 1..num_precommits :
                  Repeats(j) /\ \A k \in 1..(j - 1) : ~Repeats(k)

\* C1: verify returns Ok only if every precommit key is an authority, the keys
\* are pairwise distinct, p >= floor(2a/3) + 1 (so p is strictly more than two
\* thirds of the a distinct authorities), and one item per precommit was queued
\* and every queued item verifies.
C1_OkOnlyWithQuorumOfValidSignatures ==
    (Done /\ result.kind = "Ok") =>
        /\ AllAuthorities
        /\ AllDistinct
        /\ num_precommits >= ((2 * NumAuthorities) \div 3) + 1
        /\ QuorumMet
        /\ Len(batch) = num_precommits
        /\ \A i \in 1..num_precommits :
              /\ batch[i].public_key = KeyOf(i)
              /\ batch[i].signature = precommits[i].signature
              /\ Ed25519Valid(batch[i])

\* C1 witness: Ok with three precommits out of four authorities.
C1_Witness ==
    /\ Done /\ result.kind = "Ok"
    /\ num_precommits = 3 /\ NumAuthorities = 4

\* C2: for every a >= 1 distinct authorities and every precommit count p,
\* verify ends in NotEnoughSignatures exactly when p < floor(2a/3) + 1.
C2_QuorumThreshold ==
    (Done /\ NumAuthorities >= 1) =>
        (result.kind = "NotEnoughSignatures"
            <=> num_precommits < ((2 * NumAuthorities) \div 3) + 1)

\* C2 witness: ten authorities and six precommits are rejected.
C2_Witness ==
    /\ Done /\ NumAuthorities = 10 /\ num_precommits = 6
    /\ result.kind = "NotEnoughSignatures"

\* C3 as stated: whenever a precommit repeats the key of an earlier one, verify
\* yields DuplicateSignature and queues nothing after the duplicate.
C3_Original ==
    (Done /\ HasRepeat) =>
        /\ result.kind = "DuplicateSignature"
        /\ Len(batch) < FirstRepeat

\* C3 amended: when the quorum is met and every precommit up to and including
\* the first one that repeats an earlier key is by an authority, verify yields
\* DuplicateSignature with the repeated key, the precommits before the
\* duplicate are the only ones queued, and the batch verification is not run.
C3_DuplicateDetection ==
    (Done /\ HasRepeat /\ QuorumMet
          /\ \A i \in 1..FirstRepeat : KeyOf(i) \in Authorities) =>
        /\ result = Err("DuplicateSignature", KeyOf(FirstRepeat))
        /\ Len(batch) = FirstRepeat - 1
        /\ next_precommit = FirstRepeat
        /\ ~BatchVerificationRan

\* C3 witness: a duplicate in second place followed by a third precommit.
C3_Witness ==
    /\ Done /\ result.kind = "DuplicateSignature"
    /\ num_precommits = 3 /\ FirstRepeat = 2 /\ Len(batch) = 1

\* Scenario of C4 and C5: an authority set of three keys.
ThreeAuthorities == NumAuthorities = 3

\* C4 as stated: three authorities, two precommits naming the same authority:
\* DuplicateSignature with that key.
C4_Original ==
    (Done /\ ThreeAuthorities /\ num_precommits = 2
          /\ KeyOf(1) = KeyOf(2) /\ KeyOf(1) \in Authorities) =>
        result = Err("DuplicateSignature", KeyOf(1))

\* C4 amended: three authorities and three precommits (the quorum), all by
\* authorities, two of which name the same authority: DuplicateSignature with
\* that key, before any batch verification is run.
C4_DuplicateScenario ==
    (Done /\ ThreeAuthorities /\ num_precommits = 3
          /\ AllAuthorities /\ HasRepeat) =>
        /\ result = Err("DuplicateSignature", KeyOf(FirstRepeat))
        /\ ~BatchVerificationRan

\* C4 witness: the amended scenario with the duplicate in last place.
C4_Witness ==
    /\ Done /\ ThreeAuthorities /\ num_precommits = 3 /\ AllAuthorities
    /\ KeyOf(1) # KeyOf(2) /\ KeyOf(3) = KeyOf(1)
    /\ result = Err("DuplicateSignature", KeyOf(1))

\* Precommit j is the only one by a key outside the authority set, and the
\* other precommits are by distinct authorities.
OnlyOutsider(j) ==
    /\ KeyOf(j) \notin Authorities
    /\ \A i \in 1..num_precommits : i # j => KeyOf(i) \in Authorities
    /\ AllDistinct

\* C5 as stated: three authorities, one precommit by a fourth key:
\* NotAuthority with that key.
C5_Original ==
    (Done /\ ThreeAuthorities /\ num_precommits = 1
          /\ KeyOf(1) \notin Authorities) =>
        result = Err("NotAuthority", KeyOf(1))

\* C5 amended: three authorities and three precommits (the quorum), one of
\* them by a fourth key outside the set and the others by distinct
\* authorities: NotAuthority with the fourth key.
C5_NotAuthorityScenario ==
    \A j \in 1..num_precommits :
        (Done /\ ThreeAuthorities /\ num_precommits = 3 /\ OnlyOutsider(j)) =>
            result = Err("NotAuthority", KeyOf(j))

\* C5 witness: the amended scenario with the outsider in second place.
C5_Witness ==
    /\ Done /\ ThreeAuthorities /\ num_precommits = 3 /\ OnlyOutsider(2)
    /\ result = Err("NotAuthority", KeyOf(2))

\* The eight little-endian bytes of a u64, written from its value.
LittleEndian8(n) == [i \in 1..8 |-> ByteOf(n, i - 1)]

\* The block-number field of a queued message: block_number_bytes bytes after
\* the kind byte and the hash.
NumberField(msg) == SubSeq(msg, 34, 33 + config.block_number_bytes)

\* C6: for block_number_bytes in 1..8, the message queued for each precommit is
\* 1 + 32 + block_number_bytes + 8 + 8 bytes long and is, in order, the byte
\* 1, the precommit's target_hash, the block-number field, the little-endian
\* round of the justification and the little-endian authorities_set_id.
C6_PreimageShape ==
    config.block_number_bytes \in 1..8 =>
        \A i \in 1..Len(batch) :
            LET msg == batch[i].msg
                w == config.block_number_bytes
            IN  /\ Len(msg) = 1 + 32 + w + 8 + 8
                /\ msg[1] = 1
                /\ SubSeq(msg, 2, 33) = precommits[i].target_hash
                /\ SubSeq(msg, 34 + w, 41 + w)
                      = LittleEndian8(config.justification.round)
                /\ SubSeq(msg, 42 + w, 49 + w)
                      = LittleEndian8(config.authorities_set_id)

\* C6 witness: two messages queued for a 3-byte block number, with a round and
\* a set id that do not fit 32 bits.
C6_Witness ==
    /\ Len(batch) = 2 /\ config.block_number_bytes = 3
    /\ config.justification.round = <<3669, 0, 1, 0>>
    /\ config.authorities_set_id = <<3490, 0, 0, 1>>
    /\ Len(batch[2].msg) = 52

\* C7: the block-number field is block_number_bytes long; its first
\* min(8, block_number_bytes) bytes are the low-order little-endian bytes of
\* target_number and the rest are zero; for 4 bytes and 5105457 it is
\* 0x31 0xE7 0x4D 0x00.
C7_BlockNumberField ==
    \A i \in 1..Len(batch) :
        LET field == NumberField(batch[i].msg)
            w == config.block_number_bytes
            n == precommits[i].target_number
        IN  /\ Len(field) = w
            /\ \A k \in 1..w :
                  field[k] = IF k <= Min(8, w) THEN ByteOf(n, k - 1) ELSE 0
            /\ (w = 4 /\ n = N5105457) => field = <<49, 231, 77, 0>>

\* C7 witness: a 3-byte field that drops the high bytes of 0x0807060504030201.
C7_Witness ==
    /\ Len(batch) >= 1 /\ config.block_number_bytes = 3
    /\ precommits[1].target_number = NBytes
    /\ NumberField(batch[1].msg) = <<1, 2, 3>>

\* Some precommit was signed for another set id or another round than those
\* the Config names.
SignedForOtherSetOrRound ==
    \E i \in 1..num_precommits :
        \/ precommits[i].signature.set_id # config.authorities_set_id
        \/ precommits[i].signature.round # config.justification.round

\* C8: a justification signed for set id s (or round r) is not accepted under
\* a Config naming another set id (or round): verify does not return Ok, and
\* returns BadSignature when membership, uniqueness and quorum pass.
C8_SetIdBinding ==
    (Done /\ SignedForOtherSetOrRound) =>
        /\ result.kind # "Ok"
        /\ (QuorumMet /\ AllAuthorities /\ AllDistinct)
              => result.kind = "BadSignature"

\* C8 witness: signatures for set id 3490 + 2^48 checked under set id 3490.
C8_Witness ==
    /\ Done /\ result.kind = "BadSignature" /\ num_precommits = 2
    /\ config.authorities_set_id = Small(3490)
    /\ \A i \in 1..2 :
          /\ precommits[i].signature.set_id = <<3490, 0, 0, 1>>
          /\ precommits[i].signature.round = config.justification.round
          /\ precommits[i].signature.signer = KeyOf(i)

-----------------------------------------------------------------------------
(* Properties of the transaction validation driver.                        *)

\* The Query is one the caller holds: validate_transaction was called and
\* into_prototype was not.
QueryHeld == query.kind \notin {"None", "Consumed"}

\* The places a virtual machine can be in: the caller's hands, the Finished
\* variant, and the machine suspended inside the other variants.
VmSlots == <<caller_vm, query.virtual_machine, query.inner.prototype>>

VmHolders == {i \in DOMAIN VmSlots : VmSlots[i] # NoVm}

\* C10: the Query the caller holds after validate_transaction and after any
\* sequence of inject_value, inject_merkle_value, resume_unknown and inject_key
\* is Finished or one of the three suspensions, its into_prototype is the
\* prototype given in Config.runtime whatever the result, and the virtual
\* machine is at every point in exactly one place: with the caller before the
\* call and after into_prototype, inside the Query in between.
C10_VmNeverLost ==
    /\ QueryHeld => /\ query.kind \in {"Finished"} \cup SuspendKinds
                    /\ into_prototype(query) = vconfig.runtime
                    /\ caller_vm = NoVm
    /\ ~QueryHeld => caller_vm = vconfig.runtime
    /\ Cardinality(VmHolders) = 1

\* A suspension of the validation call on the v2 path, surfaced after the
\* caller answered an earlier suspension of the same call.
C10_Witness ==
    /\ query.kind \in SuspendKinds
    /\ query.info.stage = 2
    /\ Len(calls) = 2
    /\ Len(query.inner.yields) = 2
    /\ query.inner.yields[1] \in SuspendKinds
    /\ into_prototype(query) = "vmB"

\* The entry points invoked so far, in order.
EntryPoints == [i \in DOMAIN calls |-> calls[i].function_to_call]

\* C11: with a version of TaggedTransactionQueue other than 2 and 3, or none,
\* the Query is Finished with UnknownApiVersion and no entry point is invoked;
\* with version 2 the first entry point invoked is Core_initialize_block; with
\* version 3 Core_initialize_block is never invoked and the first entry point
\* invoked is TaggedTransactionQueue_validate_transaction.
C11_ApiVersionDispatch ==
    /\ vconfig.api_version \notin {<<2>>, <<3>>} =>
          /\ EntryPoints = << >>
          /\ QueryHeld =>
                query = Finished(DriverErr("UnknownApiVersion", ""), vconfig.runtime)
    /\ vconfig.api_version = <<2>> =>
          /\ EntryPoints # << >> => EntryPoints[1] = "Core_initialize_block"
          /\ QueryHeld /\ vconfig.scale_encoded_header.valid => EntryPoints # << >>
    /\ vconfig.api_version = <<3>> =>
          /\ \A i \in DOMAIN EntryPoints : EntryPoints[i] # "Core_initialize_block"
          /\ QueryHeld =>
                /\ EntryPoints # << >>
                /\ EntryPoints[1] = "TaggedTransactionQueue_validate_transaction"

\* A runtime that has only version 1 of the API: the Query is Finished with
\* UnknownApiVersion and nothing was called.
C11_Witness ==
    /\ vconfig.api_version = <<1>>
    /\ query.kind = "Finished"
    /\ query.result.error = "UnknownApiVersion"
    /\ EntryPoints = << >>

\* Core_initialize_block was called and finished successfully.
Stage1FinishedOk ==
    /\ vconfig.api_version = <<2>>
    /\ calls # << >>
    /\ calls[1].ended.state = "FinishedOk"

\* C12: when Core_initialize_block finishes successfully with a non-empty
\* output the run ends with Finished(OutputDecodeError) and the validation
\* function is never invoked; with an empty output the validation function is
\* invoked with the storage changes of Core_initialize_block as its main-trie
\* diff, and when that call fails to start the run ends with
\* Finished(WasmStart) carrying the virtual machine.
C12_Stage1Completion ==
    Stage1FinishedOk =>
        IF calls[1].ended.output # << >>
        THEN /\ Len(calls) = 1
             /\ QueryHeld =>
                   query = Finished(DriverErr("OutputDecodeError", ""), vconfig.runtime)
        ELSE /\ Len(calls) = 2
             /\ calls[2].function_to_call = VALIDATION_FUNCTION_NAME
             /\ calls[2].storage_main_trie_changes = calls[1].ended.storage_changes
             /\ (~calls[2].started /\ QueryHeld) =>
                   query = Finished(DriverErr("WasmStart", ""), vconfig.runtime)

\* Core_initialize_block returned nothing and changed the storage, and the
\* validation call, given these changes, failed to start.
C12_Witness ==
    /\ Stage1FinishedOk
    /\ calls[1].ended.output = << >>
    /\ calls[1].ended.storage_changes = "changes"
    /\ Len(calls) = 2
    /\ calls[2].storage_main_trie_changes = "changes"
    /\ ~calls[2].started
    /\ query.kind = "Finished"
    /\ query.result.error = "WasmStart"
    /\ query.virtual_machine = vconfig.runtime

\* The validation function was called and finished successfully; its call is
\* the last one.
ValidationFinishedOk ==
    /\ calls # << >>
    /\ calls[Len(calls)].function_to_call = VALIDATION_FUNCTION_NAME
    /\ calls[Len(calls)].ended.state = "FinishedOk"

\* What the output of the validation call decodes to.
ValidationDecoded ==
    decode_validate_transaction_return_value(calls[Len(calls)].ended.output)

\* C13: when the output of the validation call decodes to a ValidTransaction
\* with an empty provides list the Query is Finished with EmptyProvidedTags,
\* and every ValidTransaction in a Finished(Ok(Ok(..))) has a non-empty
\* provides list.
C13_EmptyProvidesRejected ==
    /\ (/\ ValidationFinishedOk
        /\ QueryHeld
        /\ ValidationDecoded.ok
        /\ ValidationDecoded.value.variant = "Valid"
        /\ ValidationDecoded.value.provides = << >>) =>
            query = Finished(DriverErr("EmptyProvidedTags", ""), vconfig.runtime)
    /\ (/\ query.kind = "Finished"
        /\ query.result.ok
        /\ query.result.value.variant = "Valid") =>
            query.result.value.provides # << >>

\* The runtime returned a well-formed ValidTransaction that requires a tag
\* and provides none.
C13_Witness ==
    /\ ValidationFinishedOk
    /\ calls[Len(calls)].ended.output = OutEmptyProvides
    /\ ValidationDecoded.ok
    /\ ValidationDecoded.value.requires # << >>
    /\ query.kind = "Finished"
    /\ query.result.error = "EmptyProvidedTags"

\* The calls that the machine ended with an offchain request other than
\* OffchainStorageSet.
OffchainCalls == {i \in DOMAIN calls : calls[i].ended.state = "Offchain"}

\* C14: in either stage, when the virtual machine yields an offchain request
\* other than OffchainStorageSet the run ends with Finished(ForbiddenHostCall)
\* carrying the prototype; the machine is not kept in the Query, so it is not
\* resumed, and no further entry point is invoked.
C14_OffchainRefused ==
    \A i \in OffchainCalls :
        /\ i = Len(calls)
        /\ QueryHeld =>
              query = Finished(DriverErr("ForbiddenHostCall", ""), vconfig.runtime)

\* Core_initialize_block made the offchain request: the run ended there and
\* the validation function was not called.
C14_Witness ==
    /\ OffchainCalls = {1}
    /\ Len(calls) = 1
    /\ calls[1].function_to_call = CORE_INITIALIZE_BLOCK
    /\ query.kind = "Finished"
    /\ query.result.error = "ForbiddenHostCall"
    /\ query.virtual_machine = vconfig.runtime

\* The calls that the machine ended with Finished(Err(..)).
FailedCalls == {i \in DOMAIN calls : calls[i].ended.state = "FinishedErr"}

\* The error that reports the failure of a call to the given function.
VmFailureOf(function) ==
    IF function = "Core_initialize_block" THEN "WasmVmReadWrite"
    ELSE "WasmVmReadOnly"

\* C15: when the virtual machine yields Finished(Err(detail)) while
\* Core_initialize_block runs the Query is Finished(WasmVmReadWrite(detail)),
\* and while the validation function runs it is
\* Finished(WasmVmReadOnly(detail)); both carry the prototype, and no entry
\* point is invoked after the failure, so the validation function is not
\* invoked after a failure of stage 1.
C15_VmFailureByStage ==
    \A i \in FailedCalls :
        /\ i = Len(calls)
        /\ calls[i].function_to_call
              \in {"Core_initialize_block", "TaggedTransactionQueue_validate_transaction"}
        /\ QueryHeld =>
              query = Finished(DriverErr(VmFailureOf(calls[i].function_to_call),
                                         calls[i].ended.detail),
                               vconfig.runtime)

\* Core_initialize_block trapped: WasmVmReadWrite with the detail of the
\* trap, and the validation function was not called.
C15_Witness ==
    /\ FailedCalls = {1}
    /\ calls[1].function_to_call = "Core_initialize_block"
    /\ calls[1].ended.detail = "Trap"
    /\ Len(calls) = 1
    /\ query.kind = "Finished"
    /\ query.result.error = "WasmVmReadWrite"
    /\ query.result.detail = "Trap"
    /\ query.virtual_machine = vconfig.runtime

\* What the caller can observe of a Query it holds: Finished or one of the
\* three suspensions, a suspension being the latest yield of the machine it
\* holds and of the same kind.
SurfacedQuery ==
    QueryHeld =>
        /\ query.kind \in {"Finished", "StorageGet", "ClosestDescendantMerkleValue",
                           "NextKey"}
        /\ query.kind # "Finished" =>
              /\ query.inner.state = query.kind
              /\ query.inner.yields # << >>
              /\ query.inner.yields[Len(query.inner.yields)] = query.kind

\* The yields the machine of the new Query had made when the caller last saw
\* it: those of the suspension just answered when the same call goes on, none
\* when the call is a new one.
YieldsSeen ==
    IF query.kind \in SuspendKinds /\ calls' = calls THEN query.inner.yields
    ELSE << >>

\* A suspension is surfaced by a step: since the caller last saw the machine
\* it made only yields that the driver answered itself, all of them
\* SignatureVerification or OffchainStorageSet, and then the one surfaced.
SurfacedStep ==
    (query' # query /\ query'.kind \in SuspendKinds) =>
        LET new == query'.inner.yields
        IN  /\ Len(new) > Len(YieldsSeen)
            /\ SubSeq(new, 1, Len(YieldsSeen)) = YieldsSeen
            /\ \A j \in (Len(YieldsSeen) + 1)..(Len(new) - 1) :
                  new[j] \in {"SignatureVerification", "OffchainStorageSet"}

\* C16: in either stage SignatureVerification and OffchainStorageSet are
\* answered by the driver itself; the caller only ever observes Finished,
\* StorageGet, ClosestDescendantMerkleValue or NextKey, and each surfaced
\* suspension corresponds to exactly one yield of the machine, of the same
\* kind.
C16_InternalYieldsNotSurfaced == []SurfacedQuery /\ [][SurfacedStep]_vars

\* A NextKey surfaced by the validation call of version 2 after an
\* OffchainStorageSet that the driver resumed itself.
C16_Witness ==
    /\ query.kind = "NextKey"
    /\ query.info.stage = 2
    /\ Len(calls) = 2
    /\ query.inner.yields = <<"OffchainStorageSet", "NextKey">>

\* The outcome of the validation call of version 2, the second call.
Stage2Outcome ==
    CASE ~calls[2].started -> DriverErr("WasmStart", "")
      [] calls[2].ended.state = "FinishedOk" ->
            validation_result(
                decode_validate_transaction_return_value(calls[2].ended.output))
      [] calls[2].ended.state = "FinishedErr" ->
            DriverErr("WasmVmReadOnly", calls[2].ended.detail)
      [] calls[2].ended.state = "Offchain" -> DriverErr("ForbiddenHostCall", "")
      [] OTHER -> NoResult

\* validate_transaction and the inject methods return a Query whenever they
\* can be called.
EveryCallReturns ==
    /\ query.kind = "None" => ENABLED ValidateTransaction
    /\ query.kind = "StorageGet" => ENABLED InjectValue
    /\ query.kind = "ClosestDescendantMerkleValue" =>
          (ENABLED InjectMerkleValue) /\ (ENABLED ResumeUnknown)
    /\ query.kind = "NextKey" => ENABLED InjectKey

\* The run of version 2 went through Core_initialize_block, which returned
\* nothing, and has finished.
FinishedThroughStage1 ==
    /\ query.kind = "Finished"
    /\ Stage1FinishedOk
    /\ calls[1].ended.output = << >>

CancelStep ==
    /\ (QueryHeld /\ query'.kind = "Consumed") =>
          /\ query' = Consumed
          /\ caller_vm' = vconfig.runtime
          /\ calls' = calls
    /\ query.kind = "Consumed" => UNCHANGED vars

\* The run was cancelled while Core_initialize_block was suspended.
CancelledInStage1 ==
    /\ query.kind = "Consumed"
    /\ calls # << >>
    /\ calls[1].function_to_call = CORE_INITIALIZE_BLOCK
    /\ calls[1].started
    /\ calls[1].ended = NoInner

\* C18: into_prototype can be called on every Query, Finished or suspended, in
\* stage 1 and in stage 2, and gives the prototype; the step that calls it
\* invokes no entry point and leaves no Query, so no result, and nothing
\* happens after it: a run cancelled while Core_initialize_block was suspended
\* never calls the validation function.
C18_Cancellation ==
    /\ [](QueryHeld => /\ ENABLED IntoPrototype
                       /\ into_prototype(query) = vconfig.runtime)
    /\ [](query.kind = "Consumed" => query.result = NoResult /\ query.inner = NoInner)
    /\ [](CancelledInStage1 => Len(calls) = 1)
    /\ [][CancelStep]_vars

\* The caller cancelled while Core_initialize_block was suspended, no other call was made,
\* and the caller holds the prototype again.
C18_Witness ==
    /\ CancelledInStage1
    /\ Len(calls) = 1
    /\ caller_vm = vconfig.runtime

-----------------------------------------------------------------------------
(* Properties of the commit decoders.                                      *)

BothDecoded == grandpa_commit # NotCalled /\ partial_commit # NotCalled

\* The lengths of the prefixes of the input that are whole commits.
CommitLengths ==
    {len \in 0..Len(commit_input.scale_encoded) :
        decode_grandpa_commit(Take(commit_input.scale_encoded, len),
                              commit_input.block_number_bytes).ok}

\* C19: on every buffer and width of block numbers, decode_grandpa_commit
\* succeeds exactly when decode_partial_grandpa_commit succeeds and leaves
\* nothing, and then they return the same commit; on a commit followed by
\* extra bytes decode_grandpa_commit fails and decode_partial_grandpa_commit
\* returns that commit and, as remainder, exactly the extra bytes.
C19_TotalVersusPartial ==
    BothDecoded =>
        /\ grandpa_commit.ok <=> (partial_commit.ok /\ partial_commit.remainder = << >>)
        /\ grandpa_commit.ok => grandpa_commit.value = partial_commit.value
        /\ \A len \in CommitLengths :
              len < Len(commit_input.scale_encoded) =>
                 /\ ~grandpa_commit.ok
                 /\ partial_commit.ok
                 /\ partial_commit.value =
                       decode_grandpa_commit(Take(commit_input.scale_encoded, len),
                                             commit_input.block_number_bytes).value
                 /\ partial_commit.remainder = Drop(commit_input.scale_encoded, len)

\* A commit with one precommit and two signatures, followed by two bytes: the
\* partial decoder returned it with the two bytes, the total one failed.
C19_Witness ==
    /\ BothDecoded
    /\ ~grandpa_commit.ok
    /\ partial_commit.ok
    /\ Len(partial_commit.value.message.precommits) = 1
    /\ Len(partial_commit.value.message.auth_data) = 2
    /\ Len(partial_commit.remainder) = 2

\* The compact prefix that counts the precommits, where the decoder reads it.
DeclaredPrecommits ==
    nom_scale_compact_usize(
        Drop(commit_input.scale_encoded, 8 + 8 + 32 + commit_input.block_number_bytes))

\* Where the precommits end when there are as many as declared.
EndOfPrecommits ==
    Len(commit_input.scale_encoded) - Len(DeclaredPrecommits.rest)
    + DeclaredPrecommits.value * (32 + commit_input.block_number_bytes)

\* The compact prefix that counts the signatures, where the decoder reads it.
DeclaredAuthData ==
    IF DeclaredPrecommits.ok /\ EndOfPrecommits < Len(commit_input.scale_encoded)
    THEN nom_scale_compact_usize(Drop(commit_input.scale_encoded, EndOfPrecommits))
    ELSE ParseFail

\* The input declares n precommits and m signatures.
Declares(n, m) ==
    /\ DeclaredPrecommits.ok /\ DeclaredPrecommits.value = n
    /\ DeclaredAuthData.ok /\ DeclaredAuthData.value = m

\* The length in bytes of the compact prefix just parsed from bytes.
CompactLength(bytes, parsed) == Len(bytes) - Len(parsed.rest)

\* 8 + 8 + 32 + b + len(compact N) + N * (32 + b) + len(compact M) + M * 96,
\* of which EndOfPrecommits is all but the last two terms.
DeclaredLength ==
    EndOfPrecommits
    + CompactLength(Drop(commit_input.scale_encoded, EndOfPrecommits), DeclaredAuthData)
    + DeclaredAuthData.value * 96

\* C20: the number of precommits and the number of signatures are two compact
\* prefixes that the decoder does not compare: a buffer that declares N
\* precommits and M signatures, N different from M, is accepted by
\* decode_grandpa_commit exactly when its length is
\* 8 + 8 + 32 + b + len(compact N) + N * (32 + b) + len(compact M) + M * 96
\* for block numbers of b bytes, and the commit returned has N precommits and
\* M signatures.
C20_IndependentListLengths ==
    (/\ grandpa_commit # NotCalled
     /\ DeclaredPrecommits.ok
     /\ DeclaredAuthData.ok
     /\ DeclaredPrecommits.value # DeclaredAuthData.value) =>
        /\ grandpa_commit.ok <=> Len(commit_input.scale_encoded) = DeclaredLength
        /\ grandpa_commit.ok =>
              /\ Len(grandpa_commit.value.message.precommits) = DeclaredPrecommits.value
              /\ Len(grandpa_commit.value.message.auth_data) = DeclaredAuthData.value

\* A commit that declares 64 precommits, in a prefix of two bytes, and one
\* signature was accepted, with 64 precommits and one signature.
C20_Witness ==
    /\ Declares(TwoByteCount, 1)
    /\ CompactLength(Drop(commit_input.scale_encoded,
                          8 + 8 + 32 + commit_input.block_number_bytes),
                     DeclaredPrecommits) = 2
    /\ grandpa_commit.ok
    /\ Len(grandpa_commit.value.message.precommits) = TwoByteCount
    /\ Len(grandpa_commit.value.message.auth_data) = 1

\* The len bytes of the input after the first offset.
Slice(offset, len) == SubSeq(commit_input.scale_encoded, offset + 1, offset + len)

\* Where the first precommit is, and where the first signature is.
StartOfPrecommits == Len(commit_input.scale_encoded) - Len(DeclaredPrecommits.rest)

StartOfAuthData == Len(commit_input.scale_encoded) - Len(DeclaredAuthData.rest)

\* The i-th precommit and the i-th signature and key of the layout.
LaidOutPrecommit(i) ==
    [target_hash |->
        Slice(StartOfPrecommits + (i - 1) * (32 + commit_input.block_number_bytes), 32),
     target_number |->
        from_le_bytes(
            Slice(StartOfPrecommits + (i - 1) * (32 + commit_input.block_number_bytes) + 32,
                  commit_input.block_number_bytes))]

LaidOutAuthData(i) ==
    <<Slice(StartOfAuthData + (i - 1) * 96, 64),
      Slice(StartOfAuthData + (i - 1) * 96 + 64, 32)>>

\* The commit whose fields are the bytes of the input at the places of the
\* layout.
LaidOutCommit ==
    [round_number |-> from_le_bytes(Slice(0, 8)),
     set_id |-> from_le_bytes(Slice(8, 8)),
     message |->
        [target_hash |-> Slice(8 + 8, 32),
         target_number |->
            from_le_bytes(Slice(8 + 8 + 32, commit_input.block_number_bytes)),
         precommits |-> [i \in 1..DeclaredPrecommits.value |-> LaidOutPrecommit(i)],
         auth_data |-> [i \in 1..DeclaredAuthData.value |-> LaidOutAuthData(i)]]]

\* The input is a commit laid out by the encoder, with nothing after it.
IsEncodedCommit ==
    \E n \in (0..MaxCommitItems) \cup {TwoByteCount}, m \in 0..MaxCommitItems :
        commit_input.scale_encoded =
            encoded_commit(n, m, commit_input.block_number_bytes)

\* C21: a buffer laid out as round_number, set_id, target_hash, target_number,
\* compact N, N precommits (hash, number), compact M, M pairs (signature,
\* public key) is accepted by decode_grandpa_commit, and the commit returned
\* has for fields the bytes at those places, the block numbers read least
\* significant byte first, the precommits and the pairs in the order of the
\* input.
C21_CommitLayout ==
    grandpa_commit # NotCalled =>
        /\ IsEncodedCommit => grandpa_commit.ok
        /\ grandpa_commit.ok => grandpa_commit.value = LaidOutCommit

\* The commit of round 3669 and set 3490 for block 5105457 with two precommits
\* and one signature, block numbers of 4 bytes, was decoded: the second
\* precommit is the second of the input.
C21_Witness ==
    /\ commit_input.block_number_bytes = 4
    /\ commit_input.scale_encoded = encoded_commit(2, 1, 4)
    /\ grandpa_commit.ok
    /\ grandpa_commit.value.round_number = Small(3669)
    /\ grandpa_commit.value.set_id = Small(3490)
    /\ grandpa_commit.value.message.target_number = <<59185, 77, 0, 0>>
    /\ grandpa_commit.value.message.precommits[2] =
          [target_hash |-> Bytes(32, 18), target_number |-> <<59186, 77, 0, 0>>]
    /\ grandpa_commit.value.message.auth_data = <<<<Bytes(64, 33), Bytes(32, 49)>>>>

\* The input is the commit of the test, and decode_grandpa_commit has run.
FixtureDecoded ==
    /\ commit_input.scale_encoded = basic_decode_commit
    /\ commit_input.block_number_bytes = 4
    /\ grandpa_commit # NotCalled

\* What the decoder makes of the commit of the test.
FixtureYield ==
    /\ grandpa_commit.ok
    /\ grandpa_commit.value.round_number = Small(3669)
    /\ grandpa_commit.value.set_id = Small(3490)
    /\ grandpa_commit.value.message.target_number = <<59185, 77, 0, 0>>
    /\ Len(grandpa_commit.value.message.precommits) = 7
    /\ Len(grandpa_commit.value.message.auth_data) = 7

\* C22: the commit of the test is 978 bytes long (8 + 8 + 32 + 4 + 1 + 7 * 36
\* + 1 + 7 * 96), starts with the bytes 55 0E 00 00 00 00 00 00 A2 0D 00 00
\* (in decimal 85 14 0 0 0 0 0 0 162 13 0 0), and decode_grandpa_commit with
\* block numbers of 4 bytes consumes all of it and yields round 3669, set
\* 3490, target number 5105457 (59185 + 77 * 2^16), 7 precommits and 7
\* signatures.
C22_FixtureCommit ==
    FixtureDecoded =>
        /\ Len(commit_input.scale_encoded) = 978
        /\ SubSeq(commit_input.scale_encoded, 1, 12) =
              <<85, 14, 0, 0, 0, 0, 0, 0, 162, 13, 0, 0>>
        /\ FixtureYield

\* The statement with the length 1448 and the first byte 85 read, like A2 and
\* 0D after it, in base 16.
C22_Original ==
    FixtureDecoded =>
        /\ Len(commit_input.scale_encoded) = 1448
        /\ SubSeq(commit_input.scale_encoded, 1, 12) =
              <<133, 14, 0, 0, 0, 0, 0, 0, 162, 13, 0, 0>>
        /\ FixtureYield

\* The commit of the test was decoded by both decoders, and the partial one
\* left nothing.
C22_Witness ==
    /\ FixtureDecoded
    /\ grandpa_commit.ok
    /\ partial_commit.ok
    /\ partial_commit.remainder = << >>
    /\ grandpa_commit.value.message.precommits[7].target_number = <<59185, 77, 0, 0>>

-----------------------------------------------------------------------------
(* Empty lists, in the decoder and in verify.                              *)

\* The encoded commits of which a list, or both, is empty.
EmptyListCommits ==
    {c \in [n : 0..MaxCommitItems, m : 0..MaxCommitItems, b : BlockNumberBytes] :
        c.n = 0 \/ c.m = 0}

\* decode_grandpa_commit on each of them.
EmptyListDecoded ==
    {[commit |-> c,
      decoded |-> decode_grandpa_commit(encoded_commit(c.n, c.m, c.b), c.b)] :
        c \in EmptyListCommits}

\* C23: decode_grandpa_commit accepts the commits whose list of precommits,
\* list of auth_data, or both, is empty, and returns the lists with the lengths
\* declared; verify on a justification with no precommit ends in
\* NotEnoughSignatures, whatever the authority set, the empty one included.
C23_EmptyLists ==
    /\ \A d \in EmptyListDecoded :
          /\ d.decoded.ok
          /\ Len(d.decoded.value.message.precommits) = d.commit.n
          /\ Len(d.decoded.value.message.auth_data) = d.commit.m
    /\ (Done /\ num_precommits = 0) =>
          result = Err("NotEnoughSignatures", NoKey)

\* C23 witness: verify has rejected a justification with no precommit against
\* an empty authority set, and the decoder accepts the commit with two empty
\* lists.
C23_Witness ==
    /\ Done /\ num_precommits = 0 /\ config.authorities_list = << >>
    /\ result = Err("NotEnoughSignatures", NoKey)
    /\ \E d \in EmptyListDecoded :
          /\ d.commit = [n |-> 0, m |-> 0, b |-> 4]
          /\ d.decoded.ok
          /\ d.decoded.value.message.precommits = << >>
          /\ d.decoded.value.message.auth_data = << >>

-----------------------------------------------------------------------------
(* Properties of the decoding of the validation function's return value.   *)

\* The ValidTransaction values written, each with its bytes.
WrittenValid ==
    {[bytes |-> encoded_valid(priority, requires, provides, longevity, propagate),
      value |-> [variant |-> "Valid", priority |-> priority,
                 requires |-> requires, provides |-> provides,
                 longevity |-> longevity, propagate |-> (propagate = 1)],
      bool |-> propagate] :
        priority \in Priorities, requires \in TagLists, provides \in TagLists,
        longevity \in Longevities, propagate \in BoolBytes}

\* Those of the format: a longevity other than zero and a bool of 0 or 1.
WellFormedValid ==
    {w \in WrittenValid : w.value.longevity # Small(0) /\ w.bool \in {0, 1}}

IsPrefix(short, long) ==
    Len(short) <= Len(long) /\ short = Take(long, Len(short))

ZeroLongevity ==
    \E w \in WrittenValid :
        w.value.longevity = Small(0) /\ w.bool \in {0, 1} /\ return_value = w.bytes

BytesLeftOver ==
    \E w \in WellFormedValid :
        IsPrefix(w.bytes, return_value) /\ Len(return_value) > Len(w.bytes)

OtherFirst == return_value = << >> \/ return_value[1] \notin {0, 1}

Truncated ==
    \E w \in WellFormedValid :
        IsPrefix(return_value, w.bytes) /\ Len(return_value) < Len(w.bytes)

Malformed == ZeroLongevity \/ BytesLeftOver \/ OtherFirst \/ Truncated

\* C24: decode_validate_transaction_return_value accepts the byte 0 followed
\* by priority, the requires tags, the provides tags, a longevity other than
\* zero and a bool, returning these fields, and accepts nothing else as a
\* ValidTransaction; a value with longevity zero, with bytes left over, with
\* another first byte, or cut short is a DecodeError, which from_step2 reports
\* as OutputDecodeError, an empty provides list or not.
C24_ValidArm ==
    /\ decoded_output # NotCalled =>
          /\ \A w \in WellFormedValid :
                return_value = w.bytes =>
                    decoded_output = [ok |-> TRUE, value |-> w.value]
          /\ (decoded_output.ok /\ decoded_output.value.variant = "Valid") =>
                /\ decoded_output.value.longevity # Small(0)
                /\ return_value =
                      encoded_valid(decoded_output.value.priority,
                                    decoded_output.value.requires,
                                    decoded_output.value.provides,
                                    decoded_output.value.longevity,
                                    IF decoded_output.value.propagate THEN 1 ELSE 0)
          /\ Malformed => ~decoded_output.ok
    /\ (reported # NotCalled /\ Malformed) =>
          reported = DriverErr("OutputDecodeError", "")

\* C24 witness: a value with a required tag, no provided tag and a longevity
\* of zero has been decoded and reported: a DecodeError, OutputDecodeError.
C24_Witness ==
    /\ return_value = encoded_valid(Small(4), <<Tag(1)>>, << >>, Small(0), 1)
    /\ decoded_output # NotCalled /\ ~decoded_output.ok
    /\ reported # NotCalled /\ reported = DriverErr("OutputDecodeError", "")

\* The value starts with the byte 1: a TransactionValidityError follows.
ErrorArm == return_value # << >> /\ return_value[1] = 1

\* The kinds of InvalidTransaction and of UnknownTransaction by their byte.
InvalidOfByte ==
    [k \in 0..9 |->
        CASE k = 0 -> "Call" [] k = 1 -> "Payment" [] k = 2 -> "Future"
          [] k = 3 -> "Stale" [] k = 4 -> "BadProof"
          [] k = 5 -> "AncientBirthBlock" [] k = 6 -> "ExhaustsResources"
          [] k = 7 -> "Custom" [] k = 8 -> "BadMandatory"
          [] k = 9 -> "MandatoryDispatch"]

UnknownOfByte ==
    [k \in 0..2 |->
        CASE k = 0 -> "CannotLookup" [] k = 1 -> "NoUnsignedValidator"
          [] k = 2 -> "Custom"]

\* What the bytes after the byte 1 stand for: a pair (0, k) or (1, k) of a
\* kind, followed by one byte exactly when the kind is Custom, and by nothing
\* else; every other sequence is an error.
ErrorOfBytes(bytes) ==
    IF Len(bytes) < 2 THEN [ok |-> FALSE, value |-> << >>]
    ELSE CASE bytes[1] = 0 /\ bytes[2] \in (0..9) \ {7} /\ Len(bytes) = 2 ->
                [ok |-> TRUE,
                 value |-> ValidityError("Invalid", InvalidOfByte[bytes[2]], 0)]
           [] bytes[1] = 0 /\ bytes[2] = 7 /\ Len(bytes) = 3 ->
                [ok |-> TRUE,
                 value |-> ValidityError("Invalid", "Custom", bytes[3])]
           [] bytes[1] = 1 /\ bytes[2] \in {0, 1} /\ Len(bytes) = 2 ->
                [ok |-> TRUE,
                 value |-> ValidityError("Unknown", UnknownOfByte[bytes[2]], 0)]
           [] bytes[1] = 1 /\ bytes[2] = 2 /\ Len(bytes) = 3 ->
                [ok |-> TRUE,
                 value |-> ValidityError("Unknown", "Custom", bytes[3])]
           [] OTHER -> [ok |-> FALSE, value |-> << >>]

\* C25: after the byte 1, (0, k) with k in 0..9 decodes to the Invalid kinds
\* Call, Payment, Future, Stale, BadProof, AncientBirthBlock,
\* ExhaustsResources, Custom(c), BadMandatory, MandatoryDispatch and (1, k)
\* with k in 0..2 to the Unknown kinds CannotLookup, NoUnsignedValidator,
\* Custom(c); the two Custom kinds, and no other, take one more byte c; another
\* kind byte, a missing byte c and any byte left over are a DecodeError.
C25_ErrorArm ==
    (decoded_output # NotCalled /\ ErrorArm) =>
        decoded_output = ErrorOfBytes(Tail(return_value))

\* C25 witness: the bytes 1, 0, 7, 9 have been decoded to Invalid(Custom(9)).
C25_Witness ==
    /\ return_value = <<1, 0, 7, 9>>
    /\ decoded_output # NotCalled /\ decoded_output.ok
    /\ decoded_output.value = ValidityError("Invalid", "Custom", 9)

-----------------------------------------------------------------------------
(* Further properties of the transaction validation driver.                *)

\* C26: when the validation call finished with an output that decodes to a
\* TransactionValidityError e, the Query is Finished with the result
\* Ok(Err(e)), which is no driver Error, and with the prototype.
C26_ValidityErrorIsOk ==
    (/\ ValidationFinishedOk
     /\ QueryHeld
     /\ ValidationDecoded.ok
     /\ ValidationDecoded.value.variant \in {"Invalid", "Unknown"}) =>
        /\ query = Finished(DriverOk(ValidationDecoded.value), vconfig.runtime)
        /\ query.result.ok
        /\ query.result.error = ""

\* C26 witness: the runtime returned Unknown(Custom(9)) and the Query is
\* Finished with Ok(Err(Unknown(Custom(9)))).
C26_Witness ==
    /\ ValidationFinishedOk
    /\ calls[Len(calls)].ended.output = OutUnknownCustom
    /\ query.kind = "Finished"
    /\ query.result = DriverOk(ValidityError("Unknown", "Custom", 9))
    /\ query.virtual_machine = vconfig.runtime

\* The calls of the validation function.
ValidationCalls ==
    {i \in DOMAIN calls : calls[i].function_to_call = VALIDATION_FUNCTION_NAME}

\* The byte of the source given in the Config.
ByteOfSource ==
    CASE vconfig.source = "InBlock" -> 0
      [] vconfig.source = "Local" -> 1
      [] vconfig.source = "External" -> 2

\* The bytes of the transaction given in the Config, segment after segment.
TransactionBytes == Flat(vconfig.scale_encoded_transaction)

\* The parameters of version 2 and of version 3 for the source, transaction
\* and header of the Config, each as one sequence of bytes.
ParametersV2 ==
    Flat(validate_transaction_runtime_parameters_v2(
             vconfig.scale_encoded_transaction, vconfig.source))
ParametersV3 ==
    Flat(validate_transaction_runtime_parameters_v3(
             vconfig.scale_encoded_transaction, vconfig.source,
             HeaderHash(vconfig.scale_encoded_header)))

\* C27: the parameter of every call of the validation function, its segments
\* put end to end, is the byte of the source (0 InBlock, 1 Local, 2 External),
\* the bytes of the transaction in the order of its segments, and with
\* version 3 the 32 bytes of the hash of the header, with version 2 nothing;
\* the parameters of version 2 are those of version 3 without their last 32
\* bytes.
C27_ParameterEncoding ==
    /\ \A i \in ValidationCalls :
          /\ vconfig.api_version \in {<<2>>, <<3>>}
          /\ Flat(calls[i].parameter) =
                <<ByteOfSource>> \o TransactionBytes
                \o (IF vconfig.api_version = <<3>>
                    THEN HeaderHash(vconfig.scale_encoded_header) ELSE << >>)
          /\ Len(HeaderHash(vconfig.scale_encoded_header)) = 32
    /\ Len(ParametersV3) = Len(ParametersV2) + 32
    /\ Take(ParametersV3, Len(ParametersV2)) = ParametersV2
    /\ ParametersV2 = <<ByteOfSource>> \o TransactionBytes

\* C27 witness: with version 3 and a Local transaction of two segments the
\* validation function was called with 1, the three bytes of the transaction
\* and the hash of the header.
C27_Witness ==
    /\ vconfig.api_version = <<3>>
    /\ vconfig.source = "Local"
    /\ Len(vconfig.scale_encoded_transaction) = 2
    /\ ValidationCalls = {1}
    /\ Flat(calls[1].parameter) =
          <<1, 9, 8, 7>> \o HeaderHash(vconfig.scale_encoded_header)
    /\ Len(Flat(calls[1].parameter)) = 36

\* The Query is a suspension, and the stage it carries.
IsSuspension == query.kind \in SuspendKinds
StageOfQuery == query.info.stage

\* The calls of Core_initialize_block.
InitializeCalls ==
    {i \in DOMAIN calls : calls[i].function_to_call = CORE_INITIALIZE_BLOCK}

\* A suspension carries the stage of the call that is running, the last one:
\* stage 1 for Core_initialize_block, stage 2 for the validation function.
StageOfRunningCall ==
    IsSuspension =>
        /\ calls # << >>
        /\ calls[Len(calls)].started
        /\ calls[Len(calls)].ended = NoInner
        /\ query.inner.function = calls[Len(calls)].function_to_call
        /\ StageOfQuery \in {1, 2}
        /\ StageOfQuery = 1 <=> Len(calls) \in InitializeCalls
        /\ StageOfQuery = 2 <=> Len(calls) \in ValidationCalls

\* Each entry point is invoked at most once, Core_initialize_block first, and
\* the validation function follows it only when it returned nothing.
AtMostOnce ==
    /\ Cardinality(InitializeCalls) <= 1
    /\ Cardinality(ValidationCalls) <= 1
    /\ InitializeCalls \subseteq {1}
    /\ (InitializeCalls # {} /\ ValidationCalls # {}) =>
          /\ ValidationCalls = {2}
          /\ calls[1].ended.state = "FinishedOk"
          /\ calls[1].ended.output = << >>

\* An answer to a suspension of stage 1 leaves Core_initialize_block running
\* in stage 1, or ends it; one of stage 2 never leaves stage 2 and invokes
\* nothing.
AnswerStep ==
    (IsSuspension /\ query'.kind # "Consumed") =>
        /\ StageOfQuery = 1 =>
              /\ calls'[1].function_to_call = CORE_INITIALIZE_BLOCK
              /\ (query'.kind \in SuspendKinds /\ query'.info.stage = 1) =>
                    calls' = calls
              /\ (query'.kind \in SuspendKinds /\ query'.info.stage = 2) =>
                    /\ Len(calls') = 2
                    /\ calls'[1].ended.state = "FinishedOk"
                    /\ calls'[1].ended.output = << >>
              /\ (query'.kind = "Finished" /\ Len(calls') = 1) =>
                    query'.result.error \in
                        {"WasmVmReadWrite", "OutputDecodeError", "ForbiddenHostCall"}
        /\ StageOfQuery = 2 =>
              /\ Len(calls') = Len(calls)
              /\ query'.kind \in SuspendKinds => query'.info.stage = 2
              /\ query'.kind = "Finished" =>
                    query'.result.error # "WasmVmReadWrite"

\* C28: a suspension surfaced while Core_initialize_block runs is of stage 1
\* and one surfaced during the validation call of stage 2, and the answer
\* goes to the handler of that stage; the stage goes from 1 to 2 only, when
\* Core_initialize_block has finished successfully with an empty output;
\* Core_initialize_block and the validation function are each invoked at most
\* once in a run.
C28_StageDiscipline ==
    /\ [](StageOfRunningCall /\ AtMostOnce)
    /\ [][AnswerStep]_vars

\* C28 witness: Core_initialize_block has finished with an empty output and
\* the validation call that followed it is suspended in stage 2.
C28_Witness ==
    /\ IsSuspension /\ StageOfQuery = 2
    /\ Len(calls) = 2
    /\ InitializeCalls = {1} /\ ValidationCalls = {2}
    /\ calls[1].ended.state = "FinishedOk"
    /\ calls[1].ended.output = << >>
    /\ query.inner.function = VALIDATION_FUNCTION_NAME

\* What stage 1 carries for the Config: its source, the bytes of its
\* transaction in one buffer, and its max_log_level.
CarriedOfConfig ==
    Stage1(vconfig.source, TransactionBytes, vconfig.max_log_level)

\* The validation call of version 2 was made with the values of the Config:
\* the byte of the source, the transaction as one segment, no block hash, and
\* the max_log_level.
HandedOver ==
    /\ calls[2].function_to_call = VALIDATION_FUNCTION_NAME
    /\ calls[2].parameter = <<<<ByteOfSource>>, TransactionBytes, << >>>>
    /\ calls[2].max_log_level = vconfig.max_log_level

\* An answer to a suspension of stage 1, whatever the yields made so far,
\* leaves what is carried as it was, into the next suspension and into the
\* validation call.
CarriedStep ==
    (IsSuspension /\ StageOfQuery = 1) =>
        /\ query.info = CarriedOfConfig
        /\ (query'.kind \in SuspendKinds /\ query'.info.stage = 1) =>
              query'.info = query.info
        /\ Len(calls') = 2 => HandedOver'

\* C29: with version 2 the source, the transaction bytes and the max_log_level
\* handed to the validation call are those of the Config, and every
\* suspension of stage 1 carries them, whatever suspensions and answers came
\* before.
C29_CarriedStage1State ==
    /\ []((IsSuspension /\ StageOfQuery = 1) => query.info = CarriedOfConfig)
    /\ []((vconfig.api_version = <<2>> /\ Len(calls) = 2) => HandedOver)
    /\ [][CarriedStep]_vars

\* C29 witness: a Local transaction of two segments at log level 3; after
\* Core_initialize_block the validation function was called with the byte 1,
\* the three bytes in one segment, and log level 3.
C29_Witness ==
    /\ vconfig.api_version = <<2>>
    /\ Len(vconfig.scale_encoded_transaction) = 2
    /\ vconfig.max_log_level = 3
    /\ Len(calls) = 2
    /\ calls[2].parameter = <<<<1>>, <<9, 8, 7>>, << >>>>
    /\ calls[2].max_log_level = 3

-----------------------------------------------------------------------------
(* Further properties of verify.                                           *)

\* The batch verifier rejects the precommits of the Config: one of them has a
\* signature that does not verify for its key and its message.
SomeSignatureRejected ==
    \E i \in 1..num_precommits : ~Ed25519Valid(Item(precommits[i], config))

\* C30: the batch verification runs only after the quorum check has passed
\* and every precommit was found to be by a distinct authority; verify ends
\* in BadSignature exactly when the quorum is met, the keys are distinct
\* authorities and the batch verifier rejects, and the error names no signer.
C30_BadSignatureLast ==
    /\ BatchVerificationRan =>
          /\ Done
          /\ QuorumMet /\ AllAuthorities /\ AllDistinct
          /\ next_precommit = num_precommits
          /\ Len(batch) = num_precommits
    /\ Done =>
          /\ result.kind = "BadSignature" <=>
                (QuorumMet /\ AllAuthorities /\ AllDistinct /\ SomeSignatureRejected)
          /\ result.kind = "BadSignature" =>
                /\ result = Err("BadSignature", NoKey)
                /\ BatchVerificationRan

\* C30 witness: three distinct authorities out of four, the second signature
\* forged: BadSignature, without a key.
C30_Witness ==
    /\ Done /\ result = Err("BadSignature", NoKey)
    /\ num_precommits = 3 /\ NumAuthorities = 4
    /\ Ed25519Valid(Item(precommits[1], config))
    /\ ~Ed25519Valid(Item(precommits[2], config))
    /\ BatchVerificationRan

-----------------------------------------------------------------------------
(* Precedence of the errors of verify.                                     *)

\* Precommit j is by a key outside the authority set, or by the key of an
\* earlier precommit.
Offends(j) == KeyOf(j) \notin Authorities \/ Repeats(j)
HasOffender == \E j \in 1..num_precommits : Offends(j)
FirstOffender ==
    CHOOSE j \in 1..num_precommits :
        Offends(j) /\ \A k \in 1..(j - 1) : ~Offends(k)

\* C31: without the quorum verify ends in NotEnoughSignatures, whatever the
\* precommits are, and has looked at none of them; with the quorum the first
\* precommit, in input order, by a key outside the authority set or by the
\* key of an earlier precommit decides: NotAuthority with its key when the key
\* is outside the set, repeated or not, and DuplicateSignature with its key
\* otherwise; without such a precommit neither of the three errors is given.
C31_ErrorPrecedence ==
    Done =>
        /\ ~QuorumMet =>
              /\ result = Err("NotEnoughSignatures", NoKey)
              /\ next_precommit = 0
              /\ batch = << >>
        /\ (QuorumMet /\ HasOffender) =>
              /\ result =
                    Err(IF KeyOf(FirstOffender) \notin Authorities
                        THEN "NotAuthority" ELSE "DuplicateSignature",
                        KeyOf(FirstOffender))
              /\ next_precommit = FirstOffender
              /\ Len(batch) = FirstOffender - 1
        /\ (QuorumMet /\ ~HasOffender) => result.kind \in {"Ok", "BadSignature"}

\* C31 witness: three authorities, and three precommits of which the second
\* and the third carry the same key outside the set: NotAuthority at the
\* second precommit.
C31_Witness ==
    /\ Done /\ NumAuthorities = 3 /\ num_precommits = 3
    /\ KeyOf(1) \in Authorities
    /\ KeyOf(2) \notin Authorities /\ KeyOf(3) = KeyOf(2)
    /\ result = Err("NotAuthority", KeyOf(2))
    /\ next_precommit = 2

-----------------------------------------------------------------------------
(* Block numbers of more than eight bytes.                                 *)

WideBlockNumber == config.block_number_bytes > 8

-----------------------------------------------------------------------------
(* The assertion on the length of the message.                             *)

\* A message was assembled, for block numbers of one to eight bytes.
MsgAssembled == batch # << >> /\ config.block_number_bytes \in 1..8

\* C33 as stated: for block_number_bytes in 1..8 the message assembled for a
\* precommit is as long as the capacity of its Vec, so that
\* debug_assert_eq!(msg.len(), msg.capacity()) holds.
C33_LengthAssertion ==
    MsgAssembled => Len(batch[Len(batch)].msg) = msg_capacity

-----------------------------------------------------------------------------
(* The header given to Core_initialize_block.                              *)

\* The limbs of a number up to which its successor carries: the first that
\* is not 65535, or 5 when all are.
CarryOf(n) ==
    IF \A k \in 1..4 : n[k] = 65535 THEN 5
    ELSE CHOOSE k \in 1..4 : n[k] # 65535 /\ \A j \in 1..(k - 1) : n[j] = 65535

\* b is a + 1 as an integer, both written in four limbs of 16 bits; the
\* greatest number has no successor of 64 bits.
IsSuccessor(a, b) ==
    /\ CarryOf(a) <= 4
    /\ \A k \in 1..4 :
          b[k] = CASE k < CarryOf(a) -> 0
                   [] k = CarryOf(a) -> a[k] + 1
                   [] OTHER -> a[k]

\* Core_initialize_block was invoked: version 2 and a header that decodes.
InitializeBlockInvoked ==
    calls # << >> /\ calls[1].function_to_call = CORE_INITIALIZE_BLOCK

\* C34 as stated: the header given to Core_initialize_block has for number
\* the number of the decoded header plus one, as an integer, for every number
\* of 64 bits; its parent_hash is the hash of the input header, its
\* extrinsics_root and state_root are zero and its digest is empty.
C34_HeaderNumber ==
    InitializeBlockInvoked =>
        /\ IsSuccessor(vconfig.scale_encoded_header.number,
                       calls[1].parameter.number)
        /\ calls[1].parameter.parent_hash =
              HeaderHash(vconfig.scale_encoded_header)
        /\ calls[1].parameter.extrinsics_root = [i \in 1..32 |-> 0]
        /\ calls[1].parameter.state_root = [i \in 1..32 |-> 0]
        /\ calls[1].parameter.digest = << >>

-----------------------------------------------------------------------------
(* The errors of the driver, by version of the API.                        *)

\* The error the Query is Finished with, "" when it is Finished with Ok and
\* "None" when it is not Finished.
FinishedError == query.result.error

\* C35: InvalidHeader is given with version 2 only, for a header that does not
\* decode, before any entry point is invoked and with the prototype given
\* back; with version 3 the run never ends in InvalidHeader nor in
\* WasmVmReadWrite, whatever the header, and ends in OutputDecodeError only
\* when the validation function returned a value that does not decode.
C35_ErrorsPerVersion ==
    /\ FinishedError = "InvalidHeader" =>
          /\ vconfig.api_version = <<2>>
          /\ ~vconfig.scale_encoded_header.valid
          /\ calls = << >>
          /\ query = Finished(DriverErr("InvalidHeader", ""), vconfig.runtime)
    /\ (QueryHeld /\ vconfig.api_version = <<2>>
          /\ ~vconfig.scale_encoded_header.valid) =>
          FinishedError = "InvalidHeader"
    /\ vconfig.api_version = <<3>> =>
          /\ FinishedError \notin {"InvalidHeader", "WasmVmReadWrite"}
          /\ FinishedError = "OutputDecodeError" =>
                /\ ValidationFinishedOk
                /\ ~ValidationDecoded.ok

\* C35 witness: with version 3 and a header that does not decode the
\* validation function was called and its value, which does not decode, gives
\* OutputDecodeError.
C35_Witness ==
    /\ vconfig.api_version = <<3>>
    /\ ~vconfig.scale_encoded_header.valid
    /\ query.kind = "Finished"
    /\ FinishedError = "OutputDecodeError"
    /\ EntryPoints = <<VALIDATION_FUNCTION_NAME>>
    /\ calls[1].ended.output = OutTrailing

-----------------------------------------------------------------------------
(* The errors verify returns.                                              *)

\* No signature verifies under the key of precommit i, as is the case of a
\* key that is not a point of the curve.
KeyVerifiesNothing(i) == ~Ed25519Valid(Item(precommits[i], config))

-----------------------------------------------------------------------------
(* Authority lists that are empty or name a key more than once.            *)

EmptyAuthorities == Len(config.authorities_list) = 0

\* C37: when authorities_list yields no key, verify never returns Ok: it
\* returns NotEnoughSignatures for a justification with no precommit and
\* NotAuthority with the key of the first precommit for every other one.
C37_EmptyAuthoritySet ==
    (Done /\ EmptyAuthorities) =>
        /\ result.kind # "Ok"
        /\ num_precommits = 0 => result = Err("NotEnoughSignatures", NoKey)
        /\ num_precommits >= 1 => result = Err("NotAuthority", KeyOf(1))

\* C37 witness: no authority and two precommits with honest signatures; the
\* key of the first one is reported.
C37_Witness ==
    /\ Done /\ EmptyAuthorities /\ num_precommits = 2
    /\ \A i \in 1..2 : Ed25519Valid(Item(precommits[i], config))
    /\ result = Err("NotAuthority", KeyOf(1))

\* The list names some key more than once.
ListedTwice == Len(config.authorities_list) > NumAuthorities

\* C38: when authorities_list names a key more than once, the threshold is
\* that of the distinct keys: NotEnoughSignatures is returned exactly when
\* three times the precommits do not exceed twice the distinct keys; and no
\* key signs two precommits of an accepted justification: the second
\* precommit of an authority, when it is the first offender, is a
\* DuplicateSignature with its key.
C38_RepeatedEntriesCountOnce ==
    (Done /\ ListedTwice) =>
        /\ result = Err("NotEnoughSignatures", NoKey)
              <=> 3 * num_precommits <= 2 * NumAuthorities
        /\ result = Ok => AllDistinct
        /\ (QuorumMet /\ HasOffender /\ KeyOf(FirstOffender) \in Authorities) =>
              result = Err("DuplicateSignature", KeyOf(FirstOffender))

\* C38 witness: three entries naming two keys, and one honest precommit by
\* each key: two precommits are a quorum of two keys but not of three.
C38_Witness ==
    /\ Done /\ Len(config.authorities_list) = 3 /\ NumAuthorities = 2
    /\ num_precommits = 2
    /\ result = Ok

-----------------------------------------------------------------------------
(* The encoding of a commit is prefix-free.                                *)

\* The first len bytes of the input.
Cut(len) == Take(commit_input.scale_encoded, len)

StrictPrefixLengths == 0..(Len(commit_input.scale_encoded) - 1)

\* What decode_partial_grandpa_commit returns for a commit it returned with
\* nothing left, when the bytes of suffix follow that commit.
FollowedBy(partial, suffix) == [partial EXCEPT !.remainder = suffix]

\* C39: when decode_grandpa_commit accepts a buffer, both decoders reject
\* every strict prefix of it; at most one prefix of any buffer is a whole
\* commit, and on that commit followed by the rest of the buffer
\* decode_partial_grandpa_commit returns what it returns on the commit alone,
\* with the rest of the buffer as remainder.
C39_PrefixFree ==
    BothDecoded =>
        /\ grandpa_commit.ok =>
              \A len \in StrictPrefixLengths :
                 /\ ~decode_grandpa_commit(Cut(len), commit_input.block_number_bytes).ok
                 /\ ~decode_partial_grandpa_commit(
                        Cut(len), commit_input.block_number_bytes).ok
        /\ Cardinality(CommitLengths) <= 1
        /\ \A len \in CommitLengths :
              partial_commit =
                 FollowedBy(decode_partial_grandpa_commit(
                                Cut(len), commit_input.block_number_bytes),
                            Drop(commit_input.scale_encoded, len))

\* C39 witness: an accepted commit of two precommits and one signature, whose
\* only prefix that is a commit is the whole of it.
C39_Witness ==
    /\ BothDecoded
    /\ grandpa_commit.ok
    /\ Len(grandpa_commit.value.message.precommits) = 2
    /\ Len(grandpa_commit.value.message.auth_data) = 1
    /\ CommitLengths = {Len(commit_input.scale_encoded)}
    /\ partial_commit.remainder = << >>

====
